---- MODULE Spec2Model ----
(***************************************************************************)
(* Model of the citation discovery / deduplication / merge pipeline of     *)
(* citations-collector: CitationRecord with its coherence validator,       *)
(* deduplicate_citations, CitationCollector.merge_citations and            *)
(* CitationCollector.discover_all.                                         *)
(*                                                                         *)
(* Encoding: Python None is the string None; an unset or empty list is     *)
(* <<>>; discovered_dates is represented by the key set of its mapping     *)
(* ({} when unset); citation_year is kept as a string.                     *)
(***************************************************************************)
EXTENDS Integers, Sequences, FiniteSets, TLC

None == "None"

\* collection.last_updated / since when unset (clock values start at 1).
NoTime == 0

\* Python truthiness of an optional string value: None and "" are falsy.
Truthy(v) == v # None /\ v # ""

\* Membership in / range of a sequence.
Range(s) == {s[i] : i \in 1..Len(s)}

(***************************************************************************)
(* CitationRecord                                                          *)
(***************************************************************************)

\* A record with every optional field unset.
Blank ==
  [item_id |-> "", item_flavor |-> "", item_ref_type |-> None,
   item_ref_value |-> None, item_name |-> None,
   citation_doi |-> None, citation_title |-> None, citation_authors |-> None,
   citation_year |-> None, citation_journal |-> None,
   citation_relationship |-> None, citation_relationships |-> <<>>,
   citation_source |-> None, citation_sources |-> <<>>,
   discovered_dates |-> {},
   citation_status |-> "active", citation_comment |-> None,
   curated_by |-> None, curated_date |-> None,
   classification_method |-> None, classification_model |-> None,
   classification_confidence |-> None, classification_reviewed |-> None]

\* A validator that does not compare the relationship with the list.
ValidatedTrustingRelationships(self) ==
  LET relPopulate == Truthy(self.citation_relationship)
                       /\ self.citation_relationships = <<>>
      relError == FALSE
      r1 == IF relPopulate
              THEN [self EXCEPT !.citation_relationships = <<self.citation_relationship>>]
              ELSE self
      srcPopulate == Truthy(r1.citation_source) /\ r1.citation_sources = <<>>
      srcError == /\ ~srcPopulate
                  /\ r1.citation_sources # <<>>
                  /\ Truthy(r1.citation_source)
                  /\ r1.citation_source \notin Range(r1.citation_sources)
      r2 == IF srcPopulate
              THEN [r1 EXCEPT !.citation_sources = <<r1.citation_source>>]
              ELSE r1
      datesError == /\ r2.citation_sources # <<>>
                    /\ r2.discovered_dates # {}
                    /\ \/ \E s \in Range(r2.citation_sources) : s \notin r2.discovered_dates
                       \/ \E s \in r2.discovered_dates : s \notin Range(r2.citation_sources)
  IN  IF relError THEN [ok |-> FALSE, rec |-> self]
      ELSE IF srcError THEN [ok |-> FALSE, rec |-> r1]
      ELSE IF datesError THEN [ok |-> FALSE, rec |-> r2]
      ELSE [ok |-> TRUE, rec |-> r2]

\* A validator that only looks for sources without a date.
ValidatedDatesOneWay(self) ==
  LET relPopulate == Truthy(self.citation_relationship)
                       /\ self.citation_relationships = <<>>
      relError == /\ ~relPopulate
                  /\ self.citation_relationships # <<>>
                  /\ Truthy(self.citation_relationship)
                  /\ self.citation_relationship # self.citation_relationships[1]
      r1 == IF relPopulate
              THEN [self EXCEPT !.citation_relationships = <<self.citation_relationship>>]
              ELSE self
      srcPopulate == Truthy(r1.citation_source) /\ r1.citation_sources = <<>>
      srcError == /\ ~srcPopulate
                  /\ r1.citation_sources # <<>>
                  /\ Truthy(r1.citation_source)
                  /\ r1.citation_source \notin Range(r1.citation_sources)
      r2 == IF srcPopulate
              THEN [r1 EXCEPT !.citation_sources = <<r1.citation_source>>]
              ELSE r1
      datesError == /\ r2.citation_sources # <<>>
                    /\ r2.discovered_dates # {}
                    /\ \E s \in Range(r2.citation_sources) : s \notin r2.discovered_dates
  IN  IF relError THEN [ok |-> FALSE, rec |-> self]
      ELSE IF srcError THEN [ok |-> FALSE, rec |-> r1]
      ELSE IF datesError THEN [ok |-> FALSE, rec |-> r2]
      ELSE [ok |-> TRUE, rec |-> r2]

\* The body of the model validator (mode="after"): auto-populate the list
\* fields from the singular ones and check coherence.  ok = FALSE stands for
\* ValueError.
Validated(self) ==
  LET relPopulate == Truthy(self.citation_relationship)
                       /\ self.citation_relationships = <<>>
      relError == /\ ~relPopulate
                  /\ self.citation_relationships # <<>>
                  /\ Truthy(self.citation_relationship)
                  /\ self.citation_relationship # self.citation_relationships[1]
      r1 == IF relPopulate
              THEN [self EXCEPT !.citation_relationships = <<self.citation_relationship>>]
              ELSE self
      srcPopulate == Truthy(r1.citation_source) /\ r1.citation_sources = <<>>
      srcError == /\ ~srcPopulate
                  /\ r1.citation_sources # <<>>
                  /\ Truthy(r1.citation_source)
                  /\ r1.citation_source \notin Range(r1.citation_sources)
      r2 == IF srcPopulate
              THEN [r1 EXCEPT !.citation_sources = <<r1.citation_source>>]
              ELSE r1
      datesError == /\ r2.citation_sources # <<>>
                    /\ r2.discovered_dates # {}
                    /\ \/ \E s \in Range(r2.citation_sources) : s \notin r2.discovered_dates
                       \/ \E s \in r2.discovered_dates : s \notin Range(r2.citation_sources)
  IN  IF relError THEN [ok |-> FALSE, rec |-> self]
      ELSE IF srcError THEN [ok |-> FALSE, rec |-> r1]
      ELSE IF datesError THEN [ok |-> FALSE, rec |-> r2]
      ELSE [ok |-> TRUE, rec |-> r2]

\* The validator applied to one record value (the argument evaluated once).
populate_and_validate(record) ==
  CHOOSE result \in {Validated(self) : self \in {record}} : TRUE

\* validate_assignment = True: every attribute assignment re-runs the validator.
SetAttr(rec, field, value) == populate_and_validate([rec EXCEPT ![field] = value])

\* A run of assignments <<field, value>> on one record, in order; r is
\* [ok, rec] and after a failed assignment nothing more is executed.
RECURSIVE AssignAll(_, _)
AssignAll(r, assignments) ==
  IF assignments = <<>> \/ ~r.ok THEN r
  ELSE CHOOSE result \in
         {AssignAll(next, Tail(assignments)) :
            next \in {SetAttr(r.rec, Head(assignments)[1], Head(assignments)[2])}} : TRUE

\* A key that forgets the flavor.
KeyIgnoringFlavor(c) == <<c.item_id, "", c.citation_doi>>

\* The merge key used throughout.
Key(c) == <<c.item_id, c.item_flavor, c.citation_doi>>

(***************************************************************************)
(* deduplicate_citations                                                   *)
(***************************************************************************)

\* The keys of the dict `grouped`, in insertion (first occurrence) order.
RECURSIVE GroupKeys(_, _)
GroupKeys(cs, acc) ==
  IF cs = <<>> THEN acc
  ELSE LET key == Key(Head(cs))
       IN  GroupKeys(Tail(cs), IF key \in Range(acc) THEN acc ELSE Append(acc, key))

\* grouped[key]: the records with that key, in input order.
Group(cs, key) == SelectSeq(cs, LAMBDA c : Key(c) = key)

\* A collection loop that puts each newly seen source in front.
RECURSIVE CollectSourcesNewestFirst(_, _)
CollectSourcesNewestFirst(group, sources) ==
  IF group = <<>> THEN sources
  ELSE LET s == Head(group).citation_source
       IN  CollectSourcesNewestFirst(Tail(group),
                                     IF Truthy(s) /\ s \notin Range(sources)
                                       THEN <<s>> \o sources ELSE sources)

\* The loop collecting every truthy citation_source once, in first-seen order.
RECURSIVE CollectSources(_, _)
CollectSources(group, sources) ==
  IF group = <<>> THEN sources
  ELSE LET s == Head(group).citation_source
       IN  CollectSources(Tail(group),
                          IF Truthy(s) /\ s \notin Range(sources)
                            THEN Append(sources, s) ELSE sources)

\* A representative that always stores the collected list, also a singleton.
RepresentativeStoringSingleton(group) ==
  CHOOSE result \in
    {IF Len(sources) >= 1 THEN SetAttr(group[1], "citation_sources", sources)
     ELSE [ok |-> TRUE, rec |-> group[1]] :
       sources \in {CollectSources(group, <<>>)}} : TRUE

\* A representative built on the last citation of the group.
RepresentativeFromLast(group) ==
  CHOOSE result \in
    {IF Len(sources) > 1 THEN SetAttr(group[Len(group)], "citation_sources", sources)
     ELSE IF Len(sources) = 1 THEN SetAttr(group[Len(group)], "citation_source", sources[1])
     ELSE [ok |-> TRUE, rec |-> group[Len(group)]] :
       sources \in {CollectSources(group, <<>>)}} : TRUE

\* The first citation of the group (group[0]) with the collected sources
\* stored on it.
Representative(group) ==
  CHOOSE result \in
    {IF Len(sources) > 1 THEN SetAttr(group[1], "citation_sources", sources)
     ELSE IF Len(sources) = 1 THEN SetAttr(group[1], "citation_source", sources[1])
     ELSE [ok |-> TRUE, rec |-> group[1]] :
       sources \in {CollectSources(group, <<>>)}} : TRUE

\* ok = FALSE: an assignment failed validation and the ValueError propagated.
deduplicate_citations(cs) ==
  CHOOSE result \in
    {IF \A i \in 1..Len(reps) : reps[i].ok
       THEN [ok |-> TRUE, val |-> [i \in 1..Len(reps) |-> reps[i].rec]]
       ELSE [ok |-> FALSE, val |-> <<>>] :
         reps \in {[i \in 1..Len(keys) |-> Representative(Group(cs, keys[i]))] :
                     keys \in {GroupKeys(cs, <<>>)}}} : TRUE

(***************************************************************************)
(* CitationCollector.merge_citations                                       *)
(***************************************************************************)

\* An index that misses the existing records.
BuildIndexEmpty(cs) == [key \in {} |-> 0]

\* The dict comprehension building existing_index: key -> position of the
\* record it maps to (a later record with the same key replaces an earlier).
BuildIndex(cs) ==
  [key \in {Key(cs[i]) : i \in 1..Len(cs)} |->
     CHOOSE i \in 1..Len(cs) :
       /\ Key(cs[i]) = key
       /\ \A j \in 1..Len(cs) : Key(cs[j]) = key => j <= i]

\* The four metadata fields a refresh may assign, in the order of the code.
RefreshedFields == <<"citation_title", "citation_authors", "citation_year", "citation_journal">>

\* A refresh that assigns every field whatever the incoming value is.
RefreshUnconditional(existing, new_citation) ==
  [ok |-> TRUE,
   rec |-> [existing EXCEPT !.citation_title = new_citation.citation_title,
                            !.citation_authors = new_citation.citation_authors,
                            !.citation_year = new_citation.citation_year,
                            !.citation_journal = new_citation.citation_journal]]

\* The metadata refresh: existing.<field> = new_citation.<field> for each of
\* the fields of RefreshedFields whose incoming value is truthy, in order.
Refresh(existing, new_citation) ==
  CHOOSE result \in
    {AssignAll([ok |-> TRUE, rec |-> existing],
               [i \in 1..Len(supplied) |-> <<supplied[i], new_citation[supplied[i]]>>]) :
       supplied \in {SelectSeq(RefreshedFields, LAMBDA f : Truthy(new_citation[f]))}} : TRUE

\* A curation test that looks at the status only.
NotCuratedStatusOnly(existing) == existing.citation_status = "active"

\* The condition under which an existing record is refreshed.
NotCurated(existing) ==
  existing.citation_status = "active" /\ ~Truthy(existing.citation_comment)

\* A loop body that replaces a known record by the incoming one.
MergeOneReplacing(st, new_citation) ==
  LET key == Key(new_citation)
  IN  IF key \in DOMAIN st.index
        THEN [st EXCEPT !.citations[st.index[key]] = new_citation]
        ELSE [st EXCEPT !.citations = Append(st.citations, new_citation),
                        !.index = [k \in DOMAIN st.index \cup {key} |->
                                     IF k = key THEN Len(st.citations) + 1 ELSE st.index[k]]]

\* A loop body that appends without registering the key in the index.
MergeOneNotRegistering(st, new_citation) ==
  LET key == Key(new_citation)
  IN  IF key \in DOMAIN st.index
        THEN IF NotCurated(st.citations[st.index[key]])
               THEN CHOOSE result \in
                      {[st EXCEPT !.citations[st.index[key]] = r.rec, !.ok = r.ok] :
                         r \in {Refresh(st.citations[st.index[key]], new_citation)}} : TRUE
               ELSE st
        ELSE [st EXCEPT !.citations = Append(st.citations, new_citation)]

\* A loop body without the test for a known key: every incoming record is
\* appended.
MergeOneAlwaysAppending(st, new_citation) ==
  LET key == Key(new_citation)
  IN  [st EXCEPT !.citations = Append(st.citations, new_citation),
                 !.index = [k \in DOMAIN st.index \cup {key} |->
                              IF k = key THEN Len(st.citations) + 1 ELSE st.index[k]]]

\* The body of the loop over new_citations; st = [citations, index, ok].
MergeOne(st, new_citation) ==
  LET key == Key(new_citation)
  IN  IF key \in DOMAIN st.index
        THEN IF NotCurated(st.citations[st.index[key]])
               THEN CHOOSE result \in
                      {[st EXCEPT !.citations[st.index[key]] = r.rec, !.ok = r.ok] :
                         r \in {Refresh(st.citations[st.index[key]], new_citation)}} : TRUE
               ELSE st
        ELSE [st EXCEPT !.citations = Append(st.citations, new_citation),
                        !.index = [k \in DOMAIN st.index \cup {key} |->
                                     IF k = key THEN Len(st.citations) + 1 ELSE st.index[k]]]

\* The loop; an exception (ok = FALSE) leaves the list as mutated so far.
RECURSIVE MergeLoop(_, _)
MergeLoop(st, news) ==
  IF news = <<>> \/ ~st.ok THEN st
  ELSE CHOOSE result \in
         {MergeLoop(next, Tail(news)) : next \in {MergeOne(st, Head(news))}} : TRUE

\* A merge that puts the records it adds in front of the known ones.
MergeCitationsNewFirst(cs, news) ==
  CHOOSE result \in
    {[ok |-> st.ok,
      citations |-> SubSeq(st.citations, Len(cs) + 1, Len(st.citations))
                      \o SubSeq(st.citations, 1, Len(cs))] :
       st \in {MergeLoop(start, news) :
                 start \in {[citations |-> cs, index |-> BuildIndex(cs), ok |-> TRUE]}}} : TRUE

\* self.citations after merge_citations(new_citations), and whether it returned.
MergeCitations(cs, news) ==
  CHOOSE result \in
    {[ok |-> st.ok, citations |-> st.citations] :
       st \in {MergeLoop(start, news) :
                 start \in {[citations |-> cs, index |-> BuildIndex(cs), ok |-> TRUE]}}} : TRUE

(***************************************************************************)
(* CitationCollector.discover_all                                          *)
(***************************************************************************)

\* The discoverers in the order they are appended.
AllSources == <<"crossref", "opencitations", "datacite", "openalex">>

\* sources = <<>> stands for the default None: all four.
Discoverers(sources) ==
  IF sources = <<>> THEN AllSources
  ELSE SelectSeq(AllSources, LAMBDA s : s \in Range(sources))

\* The (item, flavor, ref) triples in iteration order.
RefTriples(item, flavor) ==
  [i \in 1..Len(flavor.refs) |-> [item |-> item, flavor |-> flavor, ref |-> flavor.refs[i]]]

RECURSIVE FlavorTriples(_, _)
FlavorTriples(item, flavors) ==
  IF flavors = <<>> THEN <<>>
  ELSE RefTriples(item, Head(flavors)) \o FlavorTriples(item, Tail(flavors))

RECURSIVE ItemTriples(_)
ItemTriples(its) ==
  IF its = <<>> THEN <<>>
  ELSE FlavorTriples(Head(its), Head(its).flavors) \o ItemTriples(Tail(its))

\* The discoverer calls of one run, in order: every discoverer for every triple.
RECURSIVE Calls(_, _)
Calls(triples, discoverers) ==
  IF triples = <<>> THEN <<>>
  ELSE [j \in 1..Len(discoverers) |->
          [item |-> Head(triples).item, flavor |-> Head(triples).flavor,
           ref |-> Head(triples).ref, source |-> discoverers[j]]]
       \o Calls(Tail(triples), discoverers)

\* "Fill in item context": five validated assignments on one citation.
Stamp(citation, call) ==
  AssignAll([ok |-> TRUE, rec |-> citation],
            << <<"item_id", call.item.item_id>>,
               <<"item_flavor", call.flavor.flavor_id>>,
               <<"item_ref_type", call.ref.ref_type>>,
               <<"item_ref_value", call.ref.ref_value>>,
               <<"item_name", call.item.name>> >>)

\* The try block of one call: outcome = [raised, citations] is what
\* discoverer.discover did; an exception contributes nothing.
CallCitations(call, outcome) ==
  IF outcome.raised THEN <<>>
  ELSE CHOOSE result \in
         {IF \E i \in 1..Len(stamped) : ~stamped[i].ok THEN <<>>
          ELSE [i \in 1..Len(stamped) |-> stamped[i].rec] :
            stamped \in {[i \in 1..Len(outcome.citations) |->
                            Stamp(outcome.citations[i], call)]}} : TRUE

\* Loops that stop at the first call that raises.
RECURSIVE AllCitationsAbortingOnFailure(_, _)
AllCitationsAbortingOnFailure(calls, outcomes) ==
  IF calls = <<>> \/ Head(outcomes).raised THEN <<>>
  ELSE CallCitations(Head(calls), Head(outcomes))
       \o AllCitationsAbortingOnFailure(Tail(calls), Tail(outcomes))

\* all_citations after the loops.
RECURSIVE AllCitations(_, _)
AllCitations(calls, outcomes) ==
  IF calls = <<>> THEN <<>>
  ELSE CallCitations(Head(calls), Head(outcomes)) \o AllCitations(Tail(calls), Tail(outcomes))

\* A watermark that advances only when the run found citations.
UpdatedWatermarkIfFound(unique_citations, watermark, clock) ==
  IF unique_citations = <<>> THEN watermark ELSE clock

\* collection.last_updated after the dedup and merge of a run: the clock
\* reading, whatever the run found.
UpdatedWatermark(unique_citations, watermark, clock) == clock

\* A since that is the watermark whatever incremental says.
SinceIgnoringIncremental(incremental, watermark) == watermark

\* since: the watermark when incremental and a watermark exists.
Since(incremental, watermark) ==
  IF incremental /\ watermark # NoTime THEN watermark ELSE NoTime

(***************************************************************************)
(* State                                                                   *)
(***************************************************************************)
VARIABLES
  citations,      \* CitationCollector.citations
  old_citations,  \* citations as they were before the last operation
  new_citations,  \* the argument of the last merge_citations call
  op,             \* the last operation: "init", "load", "merge", "remerge"
  merges,         \* number of merge_citations calls so far
  items,          \* collection.items
  last_updated,   \* collection.last_updated (NoTime when unset)
  now,            \* the clock datetime.now() reads
  runs,           \* log of the discover_all runs: the discoverer calls made
  dd_in,          \* deduplicate_citations: the argument list
  dd_out,         \* its result
  dd_again,       \* the result of applying it to its own output
  dd_pc,          \* "input", "once", "twice"
  fn_in,          \* the arguments of the function applied (NoCall when idle)
  fn_out,         \* what it returned or raised (NoResult before it is applied)
  stored,         \* ClassificationsStorage: classifications.json of one paper
  stored_before,  \* stored as it was before the last add_classification
  adds            \* the add_classification calls so far, in order

ccvars == <<citations, old_citations, new_citations, op, merges>>
covars == <<items, last_updated, now, runs>>
ddvars == <<dd_in, dd_out, dd_again, dd_pc>>
fnvars == <<fn_in, fn_out>>
csvars == <<stored, stored_before, adds>>
vars == <<citations, old_citations, new_citations, op, merges,
          items, last_updated, now, runs,
          dd_in, dd_out, dd_again, dd_pc,
          fn_in, fn_out, stored, stored_before, adds>>

(***************************************************************************)
(* Bounded inputs                                                          *)
(***************************************************************************)
MaxLen == 3

SeqsUpTo(S, n) == UNION {[1..m -> S] : m \in 0..n}

ItemKeys == {<<"i1", "f1", "10.1/a">>, <<"i1", "f1", "10.1/b">>, <<"i1", "f2", "10.1/a">>}

\* <<citation_source, citation_sources, discovered_dates, citation_title>>
SourceProfiles ==
  { <<"crossref", <<>>, {}, "T1">>,
    <<"opencitations", <<>>, {}, "T2">>,
    <<"crossref", <<>>, {}, "T2">>,
    <<None, <<>>, {}, "T1">>,
    <<"crossref", <<"crossref", "opencitations">>, {}, "T1">>,
    <<"crossref", <<>>, {"crossref"}, "T1">>,
    <<None, <<"opencitations">>, {}, "T2">>,
    <<"crossref", <<"opencitations">>, {}, "T1">> }

\* CitationRecord(...): construction runs the validator; ok = FALSE raises.
Construct(key, p) ==
  populate_and_validate(
    [Blank EXCEPT !.item_id = key[1], !.item_flavor = key[2], !.citation_doi = key[3],
                  !.citation_relationship = "Cites",
                  !.citation_source = p[1], !.citation_sources = p[2],
                  !.discovered_dates = p[3], !.citation_title = p[4]])

DedupRecords ==
  {Construct(key, p).rec : <<key, p>> \in {kp \in ItemKeys \X SourceProfiles : Construct(kp[1], kp[2]).ok}}

NoResult == [ok |-> FALSE, val |-> <<>>]

(***************************************************************************)
(* Specification of deduplicate_citations as a pure function               *)
(***************************************************************************)
\* CitationCollector.__init__: no citations yet.
InitCollector ==
  /\ citations = <<>>
  /\ old_citations = <<>>
  /\ new_citations = <<>>
  /\ op = "init"
  /\ merges = 0

\* No function applied and no classification stored.
NoCall == <<>>

NotApplied == [done |-> FALSE]

InitIdle ==
  /\ fn_in = NoCall
  /\ fn_out = NotApplied
  /\ stored = <<>>
  /\ stored_before = <<>>
  /\ adds = <<>>

\* A collection without items and without a watermark.
InitNoCollection ==
  /\ items = <<>>
  /\ last_updated = NoTime
  /\ now = 1
  /\ runs = <<>>

InitDedup ==
  /\ InitIdle
  /\ InitCollector
  /\ InitNoCollection
  /\ dd_in \in SeqsUpTo(DedupRecords, MaxLen)
  /\ dd_out = NoResult
  /\ dd_again = NoResult
  /\ dd_pc = "input"

Deduplicate ==
  /\ dd_pc = "input"
  /\ dd_out' = deduplicate_citations(dd_in)
  /\ dd_pc' = "once"
  /\ UNCHANGED <<dd_in, dd_again>>
  /\ UNCHANGED <<ccvars, covars, fnvars, csvars>>

DeduplicateAgain ==
  /\ dd_pc = "once"
  /\ dd_out.ok
  /\ dd_again' = deduplicate_citations(dd_out.val)
  /\ dd_pc' = "twice"
  /\ UNCHANGED <<dd_in, dd_out>>
  /\ UNCHANGED <<ccvars, covars, fnvars, csvars>>

NextDedup == Deduplicate \/ DeduplicateAgain

SpecDedup == InitDedup /\ [][NextDedup]_vars

(***************************************************************************)
(* Bounded inputs of the collector                                         *)
(***************************************************************************)
MaxExisting == 2
MaxBatch == 2
MaxMerges == 1

\* <<citation_status, citation_comment, curated_by, curated_date,
\*   classification_method, classification_model, classification_confidence,
\*   classification_reviewed>>
Uncurated == <<"active", None, None, None, None, None, None, None>>
Classified == <<"active", None, "curator", "2025-01-15", "llm", "m1", "0.9", "True">>
CuratedComment == <<"active", "reviewed ok", "curator", "2025-01-15", "llm", "m1", "0.9", "True">>
CuratedIgnored == <<"ignored", None, "curator", "2025-01-15", None, None, None, None>>

\* CitationRecord(**cleaned): a record as built from given field values.
\* meta = <<title, authors, year, journal>>, src = <<source, sources>>.
MakeRecord(key, meta, cur, src) ==
  populate_and_validate(
    [Blank EXCEPT !.item_id = key[1], !.item_flavor = key[2], !.citation_doi = key[3],
                  !.citation_title = meta[1], !.citation_authors = meta[2],
                  !.citation_year = meta[3], !.citation_journal = meta[4],
                  !.citation_relationship = "Cites",
                  !.citation_source = src[1], !.citation_sources = src[2],
                  !.citation_status = cur[1], !.citation_comment = cur[2],
                  !.curated_by = cur[3], !.curated_date = cur[4],
                  !.classification_method = cur[5], !.classification_model = cur[6],
                  !.classification_confidence = cur[7],
                  !.classification_reviewed = cur[8]]).rec

\* Rows of a citations TSV as load_citations builds them.
PersistedRecords ==
  { MakeRecord(<<"i1", "f1", "10.1/a">>, <<None, None, None, None>>, Uncurated,
               <<"crossref", <<"crossref">> >>),
    MakeRecord(<<"i1", "f1", "10.1/a">>, <<"T1", "A1", "2024", "J1">>, CuratedComment,
               <<"crossref", <<"crossref", "opencitations">> >>),
    MakeRecord(<<"i1", "f1", "10.1/b">>, <<"T1", "A1", "2024", "J1">>, Uncurated,
               <<"crossref", <<"crossref">> >>),
    MakeRecord(<<"i1", "f1", "10.1/b">>, <<None, "A1", "2024", "J1">>, CuratedIgnored,
               <<"manual", <<"manual">> >>),
    MakeRecord(<<"i1", "f2", "10.1/a">>, <<"T1", None, "2024", None>>, Classified,
               <<"datacite", <<"datacite">> >>) }

UniqueKeys(cs) == \A i, j \in 1..Len(cs) : Key(cs[i]) = Key(cs[j]) => i = j

\* The files load_existing_citations may read: written by save, one row per key.
TsvFiles == {f \in SeqsUpTo(PersistedRecords, MaxExisting) : UniqueKeys(f)}

\* Metadata <<title, authors, year, journal>> a discoverer may supply.
NoMeta == <<None, None, None, None>>
FullMeta == <<"T2", "A2", "2025", "J2">>
TitleYearMeta == <<"T2", None, "2025", "">>
AuthorsJournalMeta == <<"", "A2", None, "J2">>

\* A record as a discoverer builds it, stamped with item and flavor.
Discovered(key, meta, source) == MakeRecord(key, meta, Uncurated, <<source, <<>> >>)

IncomingRecords ==
  { Discovered(<<"i1", "f1", "10.1/a">>, NoMeta, "opencitations"),
    Discovered(<<"i1", "f1", "10.1/a">>, FullMeta, "crossref"),
    Discovered(<<"i1", "f1", "10.1/a">>, TitleYearMeta, "crossref"),
    Discovered(<<"i1", "f1", "10.1/b">>, AuthorsJournalMeta, "datacite"),
    Discovered(<<"i1", "f2", "10.1/a">>, FullMeta, "crossref") }

Batches == SeqsUpTo(IncomingRecords, MaxBatch)

(***************************************************************************)
(* Specification of the collector: load once, then merge batches           *)
(***************************************************************************)
Init ==
  /\ InitIdle
  /\ InitCollector
  /\ InitNoCollection
  /\ dd_in = <<>>
  /\ dd_out = NoResult
  /\ dd_again = NoResult
  /\ dd_pc = "input"

\* load_existing_citations, called by the CLI right after construction.
load_existing_citations(file) ==
  /\ op = "init"
  /\ citations' = file
  /\ old_citations' = citations
  /\ new_citations' = <<>>
  /\ op' = "load"
  /\ UNCHANGED <<merges, covars, ddvars, fnvars, csvars>>

merge_citations(batch) ==
  /\ merges < MaxMerges
  /\ op # "remerge"
  /\ citations' = MergeCitations(citations, batch).citations
  /\ old_citations' = citations
  /\ new_citations' = batch
  /\ op' = "merge"
  /\ merges' = merges + 1
  /\ UNCHANGED <<covars, ddvars, fnvars, csvars>>

\* The same batch merged a second time, right after its merge.
merge_citations_again ==
  /\ op = "merge"
  /\ citations' = MergeCitations(citations, new_citations).citations
  /\ old_citations' = citations
  /\ new_citations' = new_citations
  /\ op' = "remerge"
  /\ UNCHANGED <<merges, covars, ddvars, fnvars, csvars>>

Load == \E file \in TsvFiles : load_existing_citations(file)

Merge == \E batch \in Batches : merge_citations(batch)

Next == Load \/ Merge \/ merge_citations_again

Spec == Init /\ [][Next]_vars

(***************************************************************************)
(* Specification of discovery runs                                         *)
(***************************************************************************)
MaxRuns == 2

DoiRef == [ref_type |-> "doi", ref_value |-> "10.5/dataset"]

\* A collection with one item, one flavor, one DOI ref.
OneItem ==
  << [item_id |-> "i1", name |-> "Dataset 1",
      flavors |-> << [flavor_id |-> "f1", refs |-> <<DoiRef>>] >>] >>

Collections == {<<>>, OneItem}

\* A record as a discoverer returns it: item_id and item_flavor blank.
Returned(doi, meta, source) == MakeRecord(<<"", "", doi>>, meta, Uncurated, <<source, <<>> >>)

Raises == [raised |-> TRUE, citations |-> <<>>]
Returns(cs) == [raised |-> FALSE, citations |-> cs]

\* What one discover call may do, per source.
DiscoverOutcomes(source) ==
  IF source = "crossref"
    THEN { Raises, Returns(<<>>),
           Returns(<< Returned("10.1/a", <<"T1", "A1", "2024", "J1">>, "crossref"),
                      Returned("10.1/b", <<"T1", "A1", "2024", "J1">>, "crossref") >>) }
  ELSE IF source = "opencitations"
    THEN { Raises,
           Returns(<< Returned("10.1/a", NoMeta, "opencitations") >>),
           Returns(<< Returned("10.1/a", <<"T2", None, None, None>>, "opencitations") >>) }
  ELSE IF source = "datacite"
    THEN { Returns(<<>>), Returns(<< Returned("10.1/b", <<"T2", None, "2025", None>>, "datacite") >>) }
  ELSE { Returns(<<>>) }

\* Every choice of outcomes for a sequence of calls.
RECURSIVE OutcomeSeqs(_)
OutcomeSeqs(calls) ==
  IF calls = <<>> THEN {<<>>}
  ELSE {<<o>> \o rest : o \in DiscoverOutcomes(Head(calls).source),
                        rest \in OutcomeSeqs(Tail(calls))}

SourceArguments == {<<>>, <<"crossref">>, <<"opencitations">>}

InitDiscover ==
  /\ InitIdle
  /\ InitCollector
  /\ items \in Collections
  /\ last_updated \in {NoTime, 1}
  /\ now = 2
  /\ runs = <<>>
  /\ dd_in = <<>>
  /\ dd_out = NoResult
  /\ dd_again = NoResult
  /\ dd_pc = "input"

\* One whole discover_all(sources, incremental) call; outcomes is what the
\* discoverer calls did.
discover_all(sources, incremental, outcomes) ==
  /\ Len(runs) < MaxRuns
  /\ \E since \in {Since(incremental, last_updated)},
        calls \in {Calls(ItemTriples(items), Discoverers(sources))} :
       \E unique \in {deduplicate_citations(AllCitations(calls, outcomes))} :
         \E merged \in {MergeCitations(citations, unique.val)} :
           /\ runs' = Append(runs,
                             [sources |-> sources, incremental |-> incremental, since |-> since,
                              calls |-> [i \in 1..Len(calls) |->
                                           [source |-> calls[i].source, ref |-> calls[i].ref,
                                            outcome |-> outcomes[i]]]])
           /\ old_citations' = citations
           /\ now' = now + 1
           /\ IF items = <<>>
                THEN /\ op' = "discover_no_items"
                     /\ UNCHANGED <<citations, new_citations, last_updated>>
              ELSE IF ~unique.ok
                THEN /\ op' = "discover_raised"
                     /\ UNCHANGED <<citations, new_citations, last_updated>>
              ELSE /\ citations' = merged.citations
                   /\ new_citations' = unique.val
                   /\ IF merged.ok
                        THEN /\ op' = "discover"
                             /\ last_updated' = UpdatedWatermark(unique.val, last_updated, now)
                        ELSE /\ op' = "discover_raised"
                             /\ UNCHANGED last_updated
           /\ UNCHANGED <<merges, items, ddvars, fnvars, csvars>>

DiscoverAll ==
  /\ Len(runs) < MaxRuns
  /\ \E sources \in SourceArguments, incremental \in BOOLEAN :
       \E outcomes \in OutcomeSeqs(Calls(ItemTriples(items), Discoverers(sources))) :
         discover_all(sources, incremental, outcomes)

NextDiscover == DiscoverAll

SpecDiscover == InitDiscover /\ [][NextDiscover]_vars

(***************************************************************************)
(* The four discoverers                                                    *)
(*                                                                         *)
(* A server is what the HTTP requests of one discover call meet:           *)
(* pages[i] answers the i-th query of the citation API and doi_org the     *)
(* metadata lookups CrossRef makes at doi.org.  An answer is               *)
(*   "error"      session.get, raise_for_status or response.json() raises  *)
(*                requests.RequestException (no connection, timeout,       *)
(*                non-2xx status, body that is not JSON);                  *)
(*   "malformed"  the body is JSON of another shape than the parsing code  *)
(*                expects (a null or a list in place of an object), so     *)
(*                the parsing raises AttributeError or TypeError;          *)
(*   "ok"         works, and whether a next_cursor follows.                *)
(* A work is [doi, title, authors, year, journal, date]; doi = None is an  *)
(* entry without a usable DOI.                                             *)
(***************************************************************************)
MaxPages == 2

Error == [kind |-> "error", works |-> <<>>, next |-> FALSE]
Malformed == [kind |-> "malformed", works |-> <<>>, next |-> FALSE]
Ok(works, next) == [kind |-> "ok", works |-> works, next |-> next]

Work(doi, meta, date) ==
  [doi |-> doi, title |-> meta[1], authors |-> meta[2], year |-> meta[3],
   journal |-> meta[4], date |-> date]

\* Entries the parsing loops skip: no DOI to build a record from.
Usable(work) == Truthy(work.doi)

\* The CitationRecord each discoverer builds from one entry.  CrossRef takes
\* the metadata from doi.org (all None when that lookup fails with a
\* RequestException), DataCite has title and year, OpenCitations the DOI only.
RecordOf(source, work, doi_org) ==
  IF source = "crossref"
    THEN Returned(work.doi,
                  IF doi_org = "ok"
                    THEN <<work.title, work.authors, work.year, work.journal>>
                    ELSE NoMeta,
                  "crossref")
  ELSE IF source = "datacite"
    THEN Returned(work.doi, <<work.title, None, work.year, None>>, "datacite")
  ELSE IF source = "opencitations"
    THEN Returned(work.doi, NoMeta, "opencitations")
  ELSE Returned(work.doi, <<work.title, work.authors, work.year, work.journal>>, "openalex")

RecordsOf(source, works, doi_org) ==
  CHOOSE result \in
    {[i \in 1..Len(usable) |-> RecordOf(source, usable[i], doi_org)] :
       usable \in {SelectSeq(works, Usable)}} : TRUE

\* What a discover call did: raised or returned citations, after so many
\* HTTP requests.
Did(raised, cs, requests) == [raised |-> raised, citations |-> cs, requests |-> requests]

\* CrossRef: one events query, then one doi.org lookup per usable event; only
\* RequestException is caught, around the query and inside the lookup.
CrossRefDiscover(server) ==
  IF server.pages[1].kind = "error" THEN Did(FALSE, <<>>, 1)
  ELSE IF server.pages[1].kind = "malformed" THEN Did(TRUE, <<>>, 1)
  ELSE IF SelectSeq(server.pages[1].works, Usable) = <<>> THEN Did(FALSE, <<>>, 1)
  ELSE IF server.doi_org = "malformed" THEN Did(TRUE, <<>>, 2)
  ELSE Did(FALSE, RecordsOf("crossref", server.pages[1].works, server.doi_org),
           1 + Len(SelectSeq(server.pages[1].works, Usable)))

\* DataCite and OpenCitations: one query, RequestException caught around it.
SingleQueryDiscover(source, server) ==
  IF server.pages[1].kind = "error" THEN Did(FALSE, <<>>, 1)
  ELSE IF server.pages[1].kind = "malformed" THEN Did(TRUE, <<>>, 1)
  ELSE Did(FALSE, RecordsOf(source, server.pages[1].works, server.doi_org), 1)

\* OpenAlex: cursor pagination; a RequestException breaks out of the loop
\* and what the earlier pages gave is returned.
RECURSIVE OpenAlexPages(_, _, _)
OpenAlexPages(pages, i, cs) ==
  IF pages[i].kind = "error" THEN Did(FALSE, cs, i)
  ELSE IF pages[i].kind = "malformed" THEN Did(TRUE, <<>>, i)
  ELSE IF pages[i].next /\ pages[i].works # <<>>
    THEN OpenAlexPages(pages, i + 1, cs \o RecordsOf("openalex", pages[i].works, "ok"))
  ELSE Did(FALSE, cs \o RecordsOf("openalex", pages[i].works, "ok"), i)

\* A discoverer that queries whatever the reference type is.
DiscoverAnyRef(source, item_ref, server) ==
  IF source = "crossref" THEN CrossRefDiscover(server)
  ELSE IF source = "openalex" THEN OpenAlexPages(server.pages, 1, <<>>)
  ELSE SingleQueryDiscover(source, server)

\* <Source>Discoverer.discover(item_ref, since) against a server.
discover(source, item_ref, server) ==
  IF item_ref.ref_type # "doi" THEN Did(FALSE, <<>>, 0)
  ELSE IF source = "crossref" THEN CrossRefDiscover(server)
  ELSE IF source = "openalex" THEN OpenAlexPages(server.pages, 1, <<>>)
  ELSE SingleQueryDiscover(source, server)

(***************************************************************************)
(* Specification of the discoverers as pure functions of the server        *)
(***************************************************************************)
GithubRef == [ref_type |-> "github", ref_value |-> "org/repo"]

WorkA == Work("10.1/a", <<"T1", "A1", "2024", "J1">>, 1)
WorkB == Work("10.1/b", <<"T2", None, "2025", None>>, 1)
NoDoiWork == Work(None, NoMeta, 1)

PageAnswers ==
  { Error, Malformed, Ok(<<>>, FALSE), Ok(<<>>, TRUE), Ok(<<WorkA>>, FALSE),
    Ok(<<WorkA>>, TRUE), Ok(<<NoDoiWork, WorkB>>, FALSE) }

\* A page is followed by another exactly when it hands out a cursor with
\* results.
Continues(page) == page.kind = "ok" /\ page.next /\ page.works # <<>>

PageSeqs ==
  {pages \in SeqsUpTo(PageAnswers, MaxPages) :
     /\ pages # <<>>
     /\ \A i \in 1..Len(pages) : (i < Len(pages)) <=> Continues(pages[i])}

Servers == [pages : PageSeqs, doi_org : {"ok", "error", "malformed"}]

DiscoverCalls == [source : Range(AllSources), item_ref : {DoiRef, GithubRef}, server : Servers]

InitDiscoverer ==
  /\ InitCollector
  /\ InitNoCollection
  /\ dd_in = <<>>
  /\ dd_out = NoResult
  /\ dd_again = NoResult
  /\ dd_pc = "input"
  /\ stored = <<>>
  /\ stored_before = <<>>
  /\ adds = <<>>
  /\ fn_in \in DiscoverCalls
  /\ fn_out = NotApplied

Discover ==
  /\ ~fn_out.done
  /\ \E did \in {discover(fn_in.source, fn_in.item_ref, fn_in.server)} :
       fn_out' = [done |-> TRUE, raised |-> did.raised, citations |-> did.citations,
                  requests |-> did.requests]
  /\ UNCHANGED <<fn_in, ccvars, covars, ddvars, csvars>>

NextDiscoverer == Discover

SpecDiscoverer == InitDiscoverer /\ [][NextDiscoverer]_vars

(***************************************************************************)
(* Specification of discovery runs against the citation APIs               *)
(*                                                                         *)
(* Each API indexes dated works that cite a dataset DOI and honours the    *)
(* date filter the discoverer sends with its query: from-updated-date      *)
(* (CrossRef), occurred-since (DataCite), from_publication_date (OpenAlex) *)
(* keep the works dated since or later, date:> (OpenCitations) the works   *)
(* dated later than since.  A call may meet a fault instead of an answer.  *)
(***************************************************************************)
OtherDoiRef == [ref_type |-> "doi", ref_value |-> "10.5/other"]

WorkC == Work("10.1/c", <<"T3", "A3", "2023", "J3">>, 1)
LaterWork == Work("10.1/d", <<"T4", "A4", "2026", "J4">>, 3)

\* The works each API holds for a dataset DOI.
Index(source, ref_value) ==
  IF ref_value = DoiRef.ref_value
    THEN IF source = "crossref" THEN <<WorkA, LaterWork>>
         ELSE IF source = "opencitations" THEN <<WorkA>>
         ELSE IF source = "datacite" THEN <<WorkB>>
         ELSE <<>>
  ELSE IF ref_value = OtherDoiRef.ref_value
    THEN IF source = "crossref" THEN <<WorkC>> ELSE <<>>
  ELSE <<>>

\* The works in the answer to a query made at time clock with filter since.
Matching(source, ref_value, since, clock) ==
  SelectSeq(Index(source, ref_value),
            LAMBDA w : /\ w.date <= clock
                       /\ \/ since = NoTime
                          \/ IF source = "opencitations" THEN w.date > since
                             ELSE w.date >= since)

Serve(source, ref_value, since, clock, fault) ==
  [pages |-> IF fault = "error" THEN <<Error>>
             ELSE IF fault = "malformed" THEN <<Malformed>>
             ELSE <<Ok(Matching(source, ref_value, since, clock), FALSE)>>,
   doi_org |-> "ok"]

\* discoverer.discover(ref, since=since) of one call, with the fault it met.
Answer(call, since, clock, fault) ==
  CHOOSE result \in
    {[raised |-> did.raised, citations |-> did.citations, requests |-> did.requests,
      fault |-> fault] :
       did \in {discover(call.source, call.ref,
                         Serve(call.source, call.ref.ref_value, since, clock, fault))}} : TRUE

\* The faults a call may meet; a call that makes no request meets none.
Faults(call) ==
  IF call.ref.ref_type # "doi" THEN {"none"}
  ELSE IF call.source = "crossref" THEN {"none", "error", "malformed"}
  ELSE {"none"}

RECURSIVE FaultSeqs(_)
FaultSeqs(calls) ==
  IF calls = <<>> THEN {<<>>}
  ELSE {<<f>> \o rest : f \in Faults(Head(calls)), rest \in FaultSeqs(Tail(calls))}

\* Two items: the first with a DOI and a GitHub ref, the second with a DOI.
TwoItems ==
  << [item_id |-> "i1", name |-> "Dataset 1",
      flavors |-> << [flavor_id |-> "f1", refs |-> <<DoiRef, GithubRef>>] >>],
     [item_id |-> "i2", name |-> "Dataset 2",
      flavors |-> << [flavor_id |-> "f1", refs |-> <<OtherDoiRef>>] >>] >>

InitLive ==
  /\ InitIdle
  /\ InitCollector
  /\ items = TwoItems
  /\ last_updated = NoTime
  /\ now = 2
  /\ runs = <<>>
  /\ dd_in = <<>>
  /\ dd_out = NoResult
  /\ dd_again = NoResult
  /\ dd_pc = "input"

DiscoverAllLive ==
  /\ Len(runs) < MaxRuns
  /\ \E sources \in SourceArguments, incremental \in BOOLEAN :
       \E calls \in {Calls(ItemTriples(items), Discoverers(sources))} :
         \E faults \in FaultSeqs(calls) :
           \E outcomes \in {[i \in 1..Len(calls) |->
                               Answer(calls[i], Since(incremental, last_updated), now,
                                      faults[i])]} :
             discover_all(sources, incremental, outcomes)

NextLive == DiscoverAllLive

SpecLive == InitLive /\ [][NextLive]_vars

(***************************************************************************)
(* ClassificationsStorage: the classifications.json of one paper           *)
(***************************************************************************)
MaxAdds == 3

\* StoredClassification.to_dict and from_dict: field by field.
to_dict(c) ==
  [item_id |-> c.item_id, item_flavor |-> c.item_flavor, model |-> c.model,
   backend |-> c.backend, relationship_type |-> c.relationship_type,
   confidence |-> c.confidence, reasoning |-> c.reasoning,
   timestamp |-> c.timestamp, mode |-> c.mode]

from_dict(data) ==
  [item_id |-> data.item_id, item_flavor |-> data.item_flavor, model |-> data.model,
   backend |-> data.backend, relationship_type |-> data.relationship_type,
   confidence |-> data.confidence, reasoning |-> data.reasoning,
   timestamp |-> data.timestamp, mode |-> data.mode]

\* A load that never finds the file.
LoadFindingNoFile(file) == <<>>

\* load_classifications: [] when there is no file, else the entries read.
load_classifications(file) == [i \in 1..Len(file) |-> from_dict(file[i])]

\* save_classifications: the whole list written.
save_classifications(classifications) ==
  [i \in 1..Len(classifications) |-> to_dict(classifications[i])]

\* A removal that keeps everything.
WithoutNothing(classifications, item_id, item_flavor, model) == classifications

\* A removal that drops every entry of the item and flavor, whatever the model.
WithoutItem(classifications, item_id, item_flavor, model) ==
  SelectSeq(classifications,
            LAMBDA c : ~(c.item_id = item_id /\ c.item_flavor = item_flavor))

\* The list without the entries of (item_id, item_flavor, model).
Without(classifications, item_id, item_flavor, model) ==
  SelectSeq(classifications,
            LAMBDA c : ~(c.item_id = item_id /\ c.item_flavor = item_flavor
                         /\ c.model = model))

\* get_classifications_for_item: the entries of one item and flavor.
get_classifications_for_item(file, item_id, item_flavor) ==
  SelectSeq(load_classifications(file),
            LAMBDA c : c.item_id = item_id /\ c.item_flavor = item_flavor)

\* Arguments of add_classification: <<item_id, item_flavor, model>> and
\* what is to be stored for it.
ClassificationKeys ==
  { <<"i1", "f1", "A">>, <<"i1", "f1", "B">>, <<"i1", "f2", "A">>, <<"i2", "f1", "A">> }

ClassificationPayloads ==
  { [relationship_type |-> "Uses", confidence |-> 90, reasoning |-> "r1",
     backend |-> "ollama", mode |-> "short_context"],
    [relationship_type |-> "Cites", confidence |-> 40, reasoning |-> "r2",
     backend |-> "dartmouth", mode |-> "full_text"] }

InitStorage ==
  /\ InitCollector
  /\ InitNoCollection
  /\ dd_in = <<>>
  /\ dd_out = NoResult
  /\ dd_again = NoResult
  /\ dd_pc = "input"
  /\ fn_in = NoCall
  /\ fn_out = NotApplied
  /\ stored = <<>>
  /\ stored_before = <<>>
  /\ adds = <<>>

\* add_classification(doi, item_id, item_flavor, result, model, backend, mode)
\* with key = <<item_id, item_flavor, model>> and payload the result, backend
\* and mode; confidence is in hundredths.
add_classification(key, payload) ==
  /\ Len(adds) < MaxAdds
  /\ \E new_classification \in
         {[item_id |-> key[1], item_flavor |-> key[2], model |-> key[3],
           backend |-> payload.backend,
           relationship_type |-> payload.relationship_type,
           confidence |-> payload.confidence, reasoning |-> payload.reasoning,
           timestamp |-> now, mode |-> payload.mode]} :
       /\ stored' = save_classifications(
                       Append(Without(load_classifications(stored), key[1], key[2], key[3]),
                              new_classification))
       /\ adds' = Append(adds, new_classification)
  /\ stored_before' = stored
  /\ now' = now + 1
  /\ UNCHANGED <<ccvars, items, last_updated, runs, ddvars, fnvars>>

AddClassification ==
  \E key \in ClassificationKeys, payload \in ClassificationPayloads :
    add_classification(key, payload)

NextStorage == AddClassification

SpecStorage == InitStorage /\ [][NextStorage]_vars

(***************************************************************************)
(* Specification of the CitationRecord constructor as a pure function      *)
(***************************************************************************)

\* Fields that must be given: construction without them is a validation
\* error before the model validator runs.
RequiredFields == {"citation_relationship"}

\* CitationRecord(**kwargs): kwargs holds the fields given, the others keep
\* their defaults; a raise produces no record.
CitationRecord(kwargs) ==
  IF \E f \in RequiredFields : kwargs[f] = None THEN [ok |-> FALSE]
  ELSE CHOOSE result \in
         {IF v.ok THEN [ok |-> TRUE, rec |-> v.rec] ELSE [ok |-> FALSE] :
            v \in {populate_and_validate(
                     [Blank EXCEPT !.item_id = "test-item", !.item_flavor = "1.0.0",
                                   !.citation_relationship = kwargs.citation_relationship,
                                   !.citation_relationships = kwargs.citation_relationships,
                                   !.citation_source = kwargs.citation_source,
                                   !.citation_sources = kwargs.citation_sources,
                                   !.discovered_dates = kwargs.discovered_dates])}} : TRUE

ConstructorArguments ==
  [citation_relationship : {None, "Cites", "Uses"},
   citation_relationships : {<<>>, <<"Cites">>, <<"Uses">>, <<"Cites", "Uses">>},
   citation_source : {None, "crossref"},
   citation_sources : {<<>>, <<"crossref">>, <<"openalex">>, <<"crossref", "openalex">>},
   discovered_dates : {{}, {"crossref"}, {"crossref", "openalex"},
                       {"crossref", "openalex", "datacite"}}]

InitConstructor ==
  /\ InitCollector
  /\ InitNoCollection
  /\ dd_in = <<>>
  /\ dd_out = NoResult
  /\ dd_again = NoResult
  /\ dd_pc = "input"
  /\ stored = <<>>
  /\ stored_before = <<>>
  /\ adds = <<>>
  /\ fn_in \in ConstructorArguments
  /\ fn_out = NotApplied

ConstructRecord ==
  /\ ~fn_out.done
  /\ \E made \in {CitationRecord(fn_in)} :
       fn_out' = IF made.ok THEN [done |-> TRUE, ok |-> TRUE, rec |-> made.rec]
                 ELSE [done |-> TRUE, ok |-> FALSE]
  /\ UNCHANGED <<fn_in, ccvars, covars, ddvars, csvars>>

NextConstructor == ConstructRecord

SpecConstructor == InitConstructor /\ [][NextConstructor]_vars

(***************************************************************************)
(* CitationClassifier.classify_citation as a pure function                 *)
(***************************************************************************)
MaxContexts == 2

\* ClassificationResult; confidence in hundredths.
ClassificationResult(relationship_type, confidence, reasoning, context_used) ==
  [relationship_type |-> relationship_type, confidence |-> confidence,
   reasoning |-> reasoning, context_used |-> context_used]

\* What a classify_citation call did: raised or returned a result, after so
\* many calls of the backend.
ClassifyDid(raised, result, backend_calls) ==
  [raised |-> raised, result |-> result, backend_calls |-> backend_calls]

NoClassification == ClassificationResult(None, 0, None, <<>>)

\* self.backend.classify_citation(...): backend is what the LLM backend does
\* when called, [raises, result].
AskBackend(backend, contexts) ==
  IF backend.raises THEN ClassifyDid(TRUE, NoClassification, 1)
  ELSE ClassifyDid(FALSE,
                   ClassificationResult(backend.result.relationship_type,
                                        backend.result.confidence,
                                        backend.result.reasoning, contexts),
                   1)

\* A classifier without the empty-contexts fallback.
ClassifyAlwaysAskingBackend(contexts, paper_metadata, dataset_id, backend) ==
  IF paper_metadata.has_title /\ paper_metadata.title = None
    THEN ClassifyDid(TRUE, NoClassification, 0)
  ELSE AskBackend(backend, contexts)

\* classify_citation(contexts, paper_metadata, dataset_id).  paper_metadata
\* is [has_title, title]; with contexts, the debug message slices
\* paper_metadata.get('title', 'unknown'), which raises TypeError when the
\* title is present and None.
classify_citation(contexts, paper_metadata, dataset_id, backend) ==
  IF contexts = <<>>
    THEN ClassifyDid(FALSE,
                     ClassificationResult("Cites", 0,
                                          "No context available for classification", <<>>),
                     0)
  ELSE IF paper_metadata.has_title /\ paper_metadata.title = None
    THEN ClassifyDid(TRUE, NoClassification, 0)
  ELSE AskBackend(backend, contexts)

PaperMetadata ==
  { [has_title |-> FALSE, title |-> None], [has_title |-> TRUE, title |-> None],
    [has_title |-> TRUE, title |-> "Paper"] }

Backends ==
  { [raises |-> TRUE, result |-> NoClassification],
    [raises |-> FALSE, result |-> ClassificationResult("Uses", 90, "r1", <<>>)],
    [raises |-> FALSE, result |-> ClassificationResult("Cites", 0, "", <<>>)] }

ClassifyCalls ==
  [contexts : SeqsUpTo({"c1", "c2"}, MaxContexts), paper_metadata : PaperMetadata,
   dataset_id : {"dandi:000003", ""}, backend : Backends]

InitClassifier ==
  /\ InitCollector
  /\ InitNoCollection
  /\ dd_in = <<>>
  /\ dd_out = NoResult
  /\ dd_again = NoResult
  /\ dd_pc = "input"
  /\ stored = <<>>
  /\ stored_before = <<>>
  /\ adds = <<>>
  /\ fn_in \in ClassifyCalls
  /\ fn_out = NotApplied

Classify ==
  /\ ~fn_out.done
  /\ \E did \in {classify_citation(fn_in.contexts, fn_in.paper_metadata,
                                     fn_in.dataset_id, fn_in.backend)} :
       fn_out' = [done |-> TRUE, raised |-> did.raised, result |-> did.result,
                  backend_calls |-> did.backend_calls]
  /\ UNCHANGED <<fn_in, ccvars, covars, ddvars, csvars>>

NextClassifier == Classify

SpecClassifier == InitClassifier /\ [][NextClassifier]_vars

(***************************************************************************)
(* The LLM backends: classify_citation and _parse_response                 *)
(*                                                                         *)
(* A reply is what the chat API call gives:                                *)
(*   api       "error" when the call raises (connection, timeout, non-2xx  *)
(*             status, body that is not JSON), else "ok";                  *)
(*   envelope  "complete", "missing" (a key or attribute on the way to     *)
(*             the message content is absent), "empty" (choices is [] or,  *)
(*             for Ollama, message is null) or "null_content" (content is  *)
(*             null);                                                      *)
(*   fenced    the content is wrapped in a ``` code block;                 *)
(*   content   "object", "array" (JSON, but not an object) or "not_json";  *)
(*   relationship_type, reasoning   the value, None when the key is absent *)
(*   confidence  [kind, value] with kind "number", "numeric_text",         *)
(*             "word", "null" or "absent" and value in hundredths.         *)
(***************************************************************************)
BackendTypes == {"ollama", "openai", "dartmouth", "openrouter"}

\* The exception the body of _parse_response raises, "none" when it builds
\* the result.  The OpenAI client hands out objects, the other two dicts.
ParseException(backend_type, reply) ==
  IF reply.envelope = "missing"
    THEN IF backend_type \in {"openai", "dartmouth"} THEN "AttributeError" ELSE "KeyError"
  ELSE IF reply.envelope = "empty"
    THEN IF backend_type = "ollama" THEN "TypeError" ELSE "IndexError"
  ELSE IF reply.envelope = "null_content" THEN "TypeError"
  ELSE IF reply.content = "not_json" THEN "JSONDecodeError"
  ELSE IF reply.content = "array" THEN "TypeError"
  ELSE IF reply.relationship_type = None THEN "KeyError"
  ELSE IF reply.confidence.kind = "absent" THEN "KeyError"
  ELSE IF reply.confidence.kind = "null" THEN "TypeError"
  ELSE IF reply.confidence.kind = "word" THEN "ValueError"
  ELSE IF reply.reasoning = None THEN "KeyError"
  ELSE "none"

\* The exceptions the except clause of _parse_response names.
ParseCaught(backend_type) ==
  IF backend_type \in {"openai", "dartmouth"}
    THEN {"KeyError", "JSONDecodeError", "ValueError", "AttributeError"}
    ELSE {"KeyError", "JSONDecodeError", "ValueError"}

\* The exceptions the except clause of classify_citation catches, besides
\* those of the API call itself: `except Exception` for the OpenAI client,
\* `except requests.exceptions.RequestException` for the other two.
OuterCaught(backend_type) ==
  IF backend_type \in {"openai", "dartmouth"}
    THEN {"KeyError", "JSONDecodeError", "ValueError", "AttributeError", "TypeError",
          "IndexError"}
    ELSE {}

Fallback(reasoning, contexts) == ClassificationResult("Cites", 0, reasoning, contexts)

\* <Backend>.classify_citation(contexts, paper_metadata, dataset_id) meeting
\* the reply.
BackendClassify(backend_type, contexts, reply) ==
  IF reply.api = "error" THEN ClassifyDid(FALSE, Fallback("API error", contexts), 1)
  ELSE IF ParseException(backend_type, reply) = "none"
    THEN ClassifyDid(FALSE,
                     ClassificationResult(reply.relationship_type, reply.confidence.value,
                                          reply.reasoning, contexts), 1)
  ELSE IF ParseException(backend_type, reply) \in ParseCaught(backend_type)
    THEN ClassifyDid(FALSE, Fallback("Parse error", contexts), 1)
  ELSE IF ParseException(backend_type, reply) \in OuterCaught(backend_type)
    THEN ClassifyDid(FALSE, Fallback("API error", contexts), 1)
  ELSE ClassifyDid(TRUE, NoClassification, 1)

Confidences ==
  { [kind |-> "number", value |-> 85], [kind |-> "numeric_text", value |-> 80],
    [kind |-> "word", value |-> 0], [kind |-> "null", value |-> 0],
    [kind |-> "absent", value |-> 0] }

ApiError ==
  [api |-> "error", envelope |-> "complete", fenced |-> FALSE, content |-> "object",
   relationship_type |-> None, confidence |-> [kind |-> "absent", value |-> 0],
   reasoning |-> None]

BrokenEnvelopes ==
  {[ApiError EXCEPT !.api = "ok", !.envelope = e] : e \in {"missing", "empty", "null_content"}}

NotObjects ==
  {[ApiError EXCEPT !.api = "ok", !.content = c, !.fenced = f] :
     c \in {"array", "not_json"}, f \in BOOLEAN}

Objects ==
  [api : {"ok"}, envelope : {"complete"}, fenced : BOOLEAN, content : {"object"},
   relationship_type : {None, "Uses"}, confidence : Confidences,
   reasoning : {None, "because"}]

Replies == {ApiError} \cup BrokenEnvelopes \cup NotObjects \cup Objects

BackendCalls == [backend_type : BackendTypes, contexts : {<<"c1">>}, reply : Replies]

InitBackend ==
  /\ InitCollector
  /\ InitNoCollection
  /\ dd_in = <<>>
  /\ dd_out = NoResult
  /\ dd_again = NoResult
  /\ dd_pc = "input"
  /\ stored = <<>>
  /\ stored_before = <<>>
  /\ adds = <<>>
  /\ fn_in \in BackendCalls
  /\ fn_out = NotApplied

BackendClassifyCall ==
  /\ ~fn_out.done
  /\ \E did \in {BackendClassify(fn_in.backend_type, fn_in.contexts, fn_in.reply)} :
       fn_out' = [done |-> TRUE, raised |-> did.raised, result |-> did.result,
                  backend_calls |-> did.backend_calls]
  /\ UNCHANGED <<fn_in, ccvars, covars, ddvars, csvars>>

NextBackend == BackendClassifyCall

SpecBackend == InitBackend /\ [][NextBackend]_vars

(***************************************************************************)
(* Selection among the classifications of one item                         *)
(* (scripts/test_classify_new.py, "Selection strategies")                  *)
(***************************************************************************)
Selected(raised, selected) == [raised |-> raised, selected |-> selected]

\* The models whose lower-cased name contains "gemma".
PreferredModels == {"A"}

\* max(all_classifications, key=lambda x: x.confidence): the first entry of
\* the largest confidence; ValueError on an empty list.
highest_confidence(all_classifications) ==
  IF all_classifications = <<>> THEN Selected(TRUE, None)
  ELSE Selected(FALSE,
         all_classifications[
           CHOOSE i \in 1..Len(all_classifications) :
             /\ \A j \in 1..Len(all_classifications) :
                  all_classifications[j].confidence <= all_classifications[i].confidence
             /\ \A j \in 1..(i - 1) :
                  all_classifications[j].confidence < all_classifications[i].confidence])

\* next((c for c in all_classifications if "gemma" in c.model.lower()),
\*      all_classifications[0]): the default is evaluated before next is
\* called, IndexError on an empty list.
model_priority(all_classifications) ==
  IF all_classifications = <<>> THEN Selected(TRUE, None)
  ELSE IF \E i \in 1..Len(all_classifications) :
            all_classifications[i].model \in PreferredModels
    THEN Selected(FALSE,
           all_classifications[
             CHOOSE i \in 1..Len(all_classifications) :
               /\ all_classifications[i].model \in PreferredModels
               /\ \A j \in 1..(i - 1) : all_classifications[j].model \notin PreferredModels])
  ELSE Selected(FALSE, all_classifications[1])

\* The (item_id, item_flavor) pairs asked for; the last has nothing stored.
ItemQueries == { <<"i1", "f1">>, <<"i1", "f2">>, <<"i2", "f1">>, <<"i3", "f1">> }

\* get_classifications_for_item followed by both selections.
Select(item_id, item_flavor) ==
  /\ \E all_classifications \in {get_classifications_for_item(stored, item_id, item_flavor)} :
       /\ fn_in' = [item_id |-> item_id, item_flavor |-> item_flavor]
       /\ fn_out' = [done |-> TRUE, all_classifications |-> all_classifications,
                     best_by_conf |-> highest_confidence(all_classifications),
                     preferred |-> model_priority(all_classifications)]
  /\ UNCHANGED <<ccvars, covars, ddvars, csvars>>

SelectClassification == \E q \in ItemQueries : Select(q[1], q[2])

NextSelect == AddClassification \/ SelectClassification

SpecSelect == InitStorage /\ [][NextSelect]_vars

(***************************************************************************)
(* persistence/tsv_io.py: save_citations and load_citations                *)
(*                                                                         *)
(* A cell is [present, text]: present is FALSE when the file has no such   *)
(* column, and text is the cell's content as a sequence of tokens, the     *)
(* tokens being the values written, "," and " ".  The empty cell is <<>>.  *)
(* A row maps the column names to cells.  The columns are those of         *)
(* TSV_COLUMNS whose fields the record of this model has, and the two      *)
(* deprecated singular columns a legacy file may carry.                    *)
(***************************************************************************)
ScalarColumns ==
  {"item_id", "item_flavor", "item_ref_type", "item_ref_value", "item_name",
   "citation_doi", "citation_title", "citation_authors", "citation_year",
   "citation_journal", "citation_status", "citation_comment", "curated_by",
   "curated_date", "classification_method", "classification_model",
   "classification_confidence", "classification_reviewed"}

ListColumns == {"citation_relationships", "citation_sources"}

LegacyColumns == {"citation_relationship", "citation_source"}

TSV_COLUMNS == ScalarColumns \cup ListColumns

NoCell == [present |-> FALSE, text |-> <<>>]
Cell(text) == [present |-> TRUE, text |-> text]

\* The characters of a string value: nothing for the empty string.
Chars(v) == IF v = "" THEN <<>> ELSE <<v>>

\* The string a text spells.
RECURSIVE Text(_)
Text(text) == IF text = <<>> THEN "" ELSE Head(text) \o Text(Tail(text))

\* ", ".join(values)
RECURSIVE Joined(_)
Joined(values) ==
  IF values = <<>> THEN <<>>
  ELSE IF Len(values) = 1 THEN Chars(values[1])
  ELSE Chars(values[1]) \o <<",", " ">> \o Joined(Tail(values))

\* text.split(","): the pieces between the commas.
RECURSIVE Split(_, _)
Split(text, piece) ==
  IF text = <<>> THEN <<piece>>
  ELSE IF Head(text) = "," THEN <<piece>> \o Split(Tail(text), <<>>)
  ELSE Split(Tail(text), Append(piece, Head(text)))

\* piece.strip()
RECURSIVE Strip(_)
Strip(piece) ==
  IF piece = <<>> THEN piece
  ELSE IF Head(piece) = " " THEN Strip(Tail(piece))
  ELSE IF piece[Len(piece)] = " " THEN Strip(SubSeq(piece, 1, Len(piece) - 1))
  ELSE piece

\* A parse of a list cell that keeps the blanks around the values.
ParsedListUnstripped(text) ==
  IF \E i \in 1..Len(text) : text[i] = ","
    THEN [i \in 1..Len(Split(text, <<>>)) |-> Text(Split(text, <<>>)[i])]
    ELSE <<Text(text)>>

\* The list a non-empty list cell stands for: [s.strip() for s in
\* field.split(",")] when it holds a comma, else [field].
ParsedList(text) ==
  IF \E i \in 1..Len(text) : text[i] = ","
    THEN [i \in 1..Len(Split(text, <<>>)) |-> Text(Strip(Split(text, <<>>)[i]))]
    ELSE <<Text(text)>>

\* A cleaning that hands the empty string on.
CleanedKeepingEmpty(cell) == Text(cell.text)

\* cleaned = {k: (v if v != "" else None)}
Cleaned(cell) == IF cell.text = <<>> THEN None ELSE Text(cell.text)

\* val = str(cleaned["classification_reviewed"]).lower(); val in
\* ("true", "1", "yes"); the booleans are written "True" and "False".
Reviewed(value) ==
  IF value \in {"True", "true", "TRUE", "1", "yes", "Yes", "YES"} THEN "True" ELSE "False"

\* cleaned.get(column): falsy for a missing column and for an empty cell.
Filled(row, column) == row[column].present /\ row[column].text # <<>>

\* The field load_citations hands to CitationRecord for a scalar column; a
\* column the file does not have leaves the field at its default.
LoadedScalar(row, column) ==
  IF ~row[column].present THEN Blank[column]
  ELSE IF column = "classification_reviewed" /\ Truthy(Cleaned(row[column]))
    THEN Reviewed(Cleaned(row[column]))
  ELSE Cleaned(row[column])

\* The list of a plural column, its legacy singular column standing in when
\* the plural one is missing or empty, and the default when both are.
LoadedList(row, plural, singular, default) ==
  IF Filled(row, plural) THEN ParsedList(row[plural].text)
  ELSE IF Filled(row, singular) THEN ParsedList(row[singular].text)
  ELSE <<default>>

\* One row of load_citations: CitationRecord(**cleaned), [ok, rec].
LoadRow(row) ==
  CHOOSE result \in
    {populate_and_validate(
       [f \in DOMAIN Blank |->
          IF f \in ScalarColumns THEN LoadedScalar(row, f)
          ELSE IF f = "citation_sources" THEN sources
          ELSE IF f = "citation_source" THEN sources[1]
          ELSE IF f = "citation_relationships" THEN relationships
          ELSE IF f = "citation_relationship" THEN relationships[1]
          ELSE Blank[f]]) :
       sources \in {LoadedList(row, "citation_sources", "citation_source", "manual")},
       relationships \in {LoadedList(row, "citation_relationships",
                                     "citation_relationship", "Cites")}} : TRUE

\* load_citations(path): the records of the rows, in order; a row whose
\* record cannot be built raises.
load_citations(file) ==
  CHOOSE result \in
    {[ok |-> \A i \in 1..Len(file) : rows[i].ok,
      citations |-> [i \in 1..Len(file) |-> rows[i].rec]] :
       rows \in {[i \in 1..Len(file) |-> LoadRow(file[i])]}} : TRUE

\* One row of save_citations: the lists joined, None written as the empty
\* cell, everything else as str(v); the singular columns are not written.
SaveRow(citation) ==
  [c \in TSV_COLUMNS \cup LegacyColumns |->
     IF c \in LegacyColumns THEN NoCell
     ELSE IF c \in ListColumns THEN Cell(Joined(citation[c]))
     ELSE IF citation[c] = None THEN Cell(<<>>)
     ELSE Cell(Chars(citation[c]))]

\* save_citations(citations, path): the file written.
save_citations(cs) == [i \in 1..Len(cs) |-> SaveRow(cs[i])]

MaxRows == 2

\* Records as the program holds them: built by a discoverer or by hand with
\* one or more relationships and sources (a source is always given),
\* possibly classified or curated.
TsvRecords ==
  { v.rec :
      v \in { w \in { populate_and_validate(
                        [Blank EXCEPT !.item_id = "i1", !.item_flavor = "f1",
                                      !.citation_doi = doi,
                                      !.citation_title = meta[1],
                                      !.citation_year = meta[3],
                                      !.citation_relationship = rels[1],
                                      !.citation_relationships = rels,
                                      !.citation_source = src[1],
                                      !.citation_sources = src[2],
                                      !.citation_status = cur[1],
                                      !.citation_comment = cur[2],
                                      !.curated_by = cur[3],
                                      !.curated_date = cur[4],
                                      !.classification_method = cur[5],
                                      !.classification_model = cur[6],
                                      !.classification_confidence = cur[7],
                                      !.classification_reviewed = cur[8]]) :
                        doi \in {"10.1/a", "10.1/b"},
                        meta \in {NoMeta, <<"T1", "A1", "2024", "J1">>},
                        rels \in {<<"Cites">>, <<"Cites", "Uses">>, <<"Uses", "Cites">>},
                        src \in {<<"crossref", <<"crossref">> >>,
                                 <<"crossref", <<"crossref", "openalex">> >>,
                                 <<"openalex", <<"crossref", "openalex">> >>},
                        cur \in {Uncurated,
                                 <<"active", None, None, None, "llm", "m1", "0.9", "False">>}
                    } : w.ok } }

\* Rows of files written by hand or by an earlier version: with or without
\* the plural and the singular columns, with empty cells.
HandRows ==
  { [c \in TSV_COLUMNS \cup LegacyColumns |->
       IF c = "item_id" THEN Cell(<<"i1">>)
       ELSE IF c = "item_flavor" THEN Cell(<<"f1">>)
       ELSE IF c = "citation_sources" THEN srcs
       ELSE IF c = "citation_source" THEN src
       ELSE IF c = "citation_relationships" THEN rels
       ELSE IF c = "citation_relationship" THEN rel
       ELSE IF c = "citation_title" THEN title
       ELSE IF c = "classification_reviewed" THEN reviewed
       ELSE other] :
      srcs \in {NoCell, Cell(<<>>), Cell(<<"crossref">>),
                Cell(<<"crossref", ",", " ", "openalex">>)},
      src \in {NoCell, Cell(<<"datacite">>)},
      rels \in {NoCell, Cell(<<>>), Cell(<<"Uses">>), Cell(<<"Cites", ",", "Uses">>)},
      rel \in {NoCell, Cell(<<"Uses">>)},
      title \in {Cell(<<>>), Cell(<<"T1">>)},
      reviewed \in {Cell(<<>>), Cell(<<"yes">>), Cell(<<"False">>)},
      other \in {NoCell, Cell(<<>>)} }

InitTsv ==
  /\ InitCollector
  /\ InitNoCollection
  /\ dd_in = <<>>
  /\ dd_out = NoResult
  /\ dd_again = NoResult
  /\ dd_pc = "input"
  /\ stored = <<>>
  /\ stored_before = <<>>
  /\ adds = <<>>
  /\ fn_in \in [kind : {"records"},
                citations : {cs \in SeqsUpTo(TsvRecords, MaxRows) : UniqueKeys(cs)}]
               \cup [kind : {"file"}, file : {<<row>> : row \in HandRows}]
  /\ fn_out = NotApplied

\* save_citations(citations, path) followed by load_citations(path).
SaveThenLoad ==
  /\ ~fn_out.done
  /\ fn_in.kind = "records"
  /\ \E file \in {save_citations(fn_in.citations)} :
       \E loaded \in {load_citations(file)} :
         fn_out' = [done |-> TRUE, file |-> file, ok |-> loaded.ok,
                    citations |-> loaded.citations]
  /\ UNCHANGED <<fn_in, ccvars, covars, ddvars, csvars>>

\* load_citations(path) on a file that is there.
LoadFile ==
  /\ ~fn_out.done
  /\ fn_in.kind = "file"
  /\ \E loaded \in {load_citations(fn_in.file)} :
       fn_out' = [done |-> TRUE, file |-> fn_in.file, ok |-> loaded.ok,
                  citations |-> loaded.citations]
  /\ UNCHANGED <<fn_in, ccvars, covars, ddvars, csvars>>

NextTsv == SaveThenLoad \/ LoadFile

SpecTsv == InitTsv /\ [][NextTsv]_vars

(***************************************************************************)
(* Specification of the collector with discovery runs: a session loads a   *)
(* file, merges batches handed to merge_citations and runs discover_all,   *)
(* in any order                                                            *)
(***************************************************************************)
MaxCalls == 3

\* The files a session may start from.
SessionFiles ==
  { << MakeRecord(<<"i1", "f1", "10.1/a">>, <<None, None, None, None>>, Uncurated,
                  <<"crossref", <<"crossref">> >>),
       MakeRecord(<<"i1", "f2", "10.1/a">>, <<"T1", None, "2024", None>>, Classified,
                  <<"datacite", <<"datacite">> >>) >>,
    << MakeRecord(<<"i1", "f1", "10.1/b">>, <<None, "A1", "2024", "J1">>, CuratedIgnored,
                  <<"manual", <<"manual">> >>) >> }

\* The batches handed to merge_citations: one record, two records of one
\* key, two records of two keys.
SessionBatches ==
  { << Discovered(<<"i1", "f1", "10.1/a">>, FullMeta, "crossref") >>,
    << Discovered(<<"i1", "f1", "10.1/a">>, NoMeta, "opencitations"),
       Discovered(<<"i1", "f1", "10.1/a">>, TitleYearMeta, "crossref") >>,
    << Discovered(<<"i1", "f1", "10.1/b">>, AuthorsJournalMeta, "datacite"),
       Discovered(<<"i1", "f2", "10.1/a">>, FullMeta, "crossref") >> }

InitSession ==
  /\ InitIdle
  /\ InitCollector
  /\ items = OneItem
  /\ last_updated = NoTime
  /\ now = 2
  /\ runs = <<>>
  /\ dd_in = <<>>
  /\ dd_out = NoResult
  /\ dd_again = NoResult
  /\ dd_pc = "input"

SessionLoad == \E file \in SessionFiles : load_existing_citations(file)

SessionMerge ==
  /\ merges + Len(runs) < MaxCalls
  /\ \E batch \in SessionBatches : merge_citations(batch)

SessionDiscoverAll ==
  /\ merges + Len(runs) < MaxCalls
  /\ Len(runs) < MaxRuns
  /\ \E sources \in {<<"crossref", "opencitations">>}, incremental \in {TRUE} :
       \E outcomes \in OutcomeSeqs(Calls(ItemTriples(items), Discoverers(sources))) :
         discover_all(sources, incremental, outcomes)

NextCollector == SessionLoad \/ SessionMerge \/ SessionDiscoverAll

SpecCollector == InitSession /\ [][NextCollector]_vars

(***************************************************************************)
(* discover_all step by step: the position of the call inside the loops    *)
(*                                                                         *)
(* While a discover_all call runs, fn_in holds its arguments and fn_out    *)
(* its local variables: pc ("calls" inside the loops, "merge" after them), *)
(* the calls to make, the index i of the next one, since, all_citations,   *)
(* the log of the calls made and the watermark read at the start.  A       *)
(* finished run is appended to runs with the batch it merged.              *)
(***************************************************************************)

\* An accumulation that keeps the citations of the last call only.
ExtendedReplacing(all_citations, cs) == cs

\* all_citations.extend(citations)
Extended(all_citations, cs) == all_citations \o cs

StepSourceArguments == {<<"crossref">>, <<"crossref", "opencitations">>}

\* Entry of discover_all up to the loops: the discoverers, since, and the
\* early return on a collection without items.
BeginDiscoverAll ==
  /\ Len(runs) < MaxRuns
  /\ fn_in = NoCall
  /\ \E sources \in StepSourceArguments, incremental \in BOOLEAN :
       \E calls \in {Calls(ItemTriples(items), Discoverers(sources))} :
         /\ old_citations' = citations
         /\ IF items = <<>>
              THEN /\ runs' = Append(runs, [sources |-> sources, incremental |-> incremental,
                                            watermark |-> last_updated, calls |-> <<>>,
                                            merged |-> FALSE, batch |-> <<>>])
                   /\ op' = "discover_no_items"
                   /\ now' = now + 1
                   /\ UNCHANGED <<fn_in, fn_out>>
              ELSE /\ fn_in' = [sources |-> sources, incremental |-> incremental]
                   /\ fn_out' = [done |-> FALSE, pc |-> IF calls = <<>> THEN "merge" ELSE "calls",
                                 calls |-> calls, i |-> 1,
                                 since |-> Since(incremental, last_updated),
                                 watermark |-> last_updated,
                                 all_citations |-> <<>>, log |-> <<>>]
                   /\ op' = "discovering"
                   /\ UNCHANGED <<runs, now>>
  /\ UNCHANGED <<citations, new_citations, merges, items, last_updated, ddvars, csvars>>

\* One pass of the innermost loop: discoverer.discover(ref, since=since),
\* the stamping of what it returned and all_citations.extend.
CallDiscoverer ==
  /\ fn_in # NoCall
  /\ fn_out.pc = "calls"
  /\ \E outcome \in DiscoverOutcomes(fn_out.calls[fn_out.i].source) :
       \E found \in {CallCitations(fn_out.calls[fn_out.i], outcome)} :
         fn_out' = [fn_out EXCEPT
                      !.all_citations = Extended(@, found),
                      !.log = Append(@, [source |-> fn_out.calls[fn_out.i].source,
                                         ref |-> fn_out.calls[fn_out.i].ref,
                                         since |-> fn_out.since,
                                         outcome |-> outcome]),
                      !.i = @ + 1,
                      !.pc = IF fn_out.i = Len(fn_out.calls) THEN "merge" ELSE "calls"]
  /\ UNCHANGED <<fn_in, ccvars, covars, ddvars, csvars>>

\* After the loops: deduplicate_citations, merge_citations and the new
\* last_updated; an exception ends the call where it is raised.
DedupAndMerge ==
  /\ fn_in # NoCall
  /\ fn_out.pc = "merge"
  /\ \E unique \in {deduplicate_citations(fn_out.all_citations)} :
       \E merged \in {MergeCitations(citations, unique.val)} :
         /\ runs' = Append(runs, [sources |-> fn_in.sources,
                                  incremental |-> fn_in.incremental,
                                  watermark |-> fn_out.watermark, calls |-> fn_out.log,
                                  merged |-> unique.ok,
                                  batch |-> IF unique.ok THEN unique.val ELSE <<>>])
         /\ IF ~unique.ok
              THEN /\ op' = "discover_raised"
                   /\ UNCHANGED <<citations, new_citations, merges, last_updated>>
              ELSE /\ citations' = merged.citations
                   /\ new_citations' = unique.val
                   /\ merges' = merges + 1
                   /\ IF merged.ok
                        THEN /\ op' = "discover"
                             /\ last_updated' = UpdatedWatermark(unique.val, last_updated, now)
                        ELSE /\ op' = "discover_raised"
                             /\ UNCHANGED last_updated
  /\ fn_in' = NoCall
  /\ fn_out' = NotApplied
  /\ now' = now + 1
  /\ UNCHANGED <<old_citations, items, ddvars, csvars>>

NextSteps == BeginDiscoverAll \/ CallDiscoverer \/ DedupAndMerge

SpecSteps == InitDiscover /\ [][NextSteps]_vars

(***************************************************************************)
(* Two add_classification calls on one paper, not serialized               *)
(*                                                                         *)
(* Each caller w runs add_classification in two steps, the reading of the  *)
(* file (load_classifications) and the writing of it (save_classifications *)
(* after the filter and the append); nothing locks the file in between.    *)
(* fn_in[w] holds the caller's arguments, fn_out[w] its position pc        *)
(* ("load", "save", "done"), its local list and the clock readings of its  *)
(* two steps.                                                              *)
(***************************************************************************)
Writers == {1, 2}

\* What classifications.json holds before the two calls.
StoredBefore ==
  { <<>>,
    << [item_id |-> "i1", item_flavor |-> "f1", model |-> "A", backend |-> "ollama",
        relationship_type |-> "Cites", confidence |-> 10, reasoning |-> "r0",
        timestamp |-> 0, mode |-> "short_context"] >>,
    << [item_id |-> "i2", item_flavor |-> "f1", model |-> "A", backend |-> "ollama",
        relationship_type |-> "Cites", confidence |-> 10, reasoning |-> "r0",
        timestamp |-> 0, mode |-> "short_context"] >> }

InitWriters ==
  /\ InitCollector
  /\ InitNoCollection
  /\ dd_in = <<>>
  /\ dd_out = NoResult
  /\ dd_again = NoResult
  /\ dd_pc = "input"
  /\ stored \in StoredBefore
  /\ stored_before = stored
  /\ adds = <<>>
  /\ fn_in \in {f \in [Writers -> [key : ClassificationKeys, payload : ClassificationPayloads]] :
                  f[1].key # f[2].key}
  /\ fn_out = [w \in Writers |-> [pc |-> "load", classifications |-> <<>>,
                                  loaded_at |-> 0, saved_at |-> 0]]

\* add_classification up to the filter: the file is read and the new entry
\* built, with the time of its creation.
WriterLoad(w) ==
  /\ fn_out[w].pc = "load"
  /\ \E new_classification \in
         {[item_id |-> fn_in[w].key[1], item_flavor |-> fn_in[w].key[2],
           model |-> fn_in[w].key[3], backend |-> fn_in[w].payload.backend,
           relationship_type |-> fn_in[w].payload.relationship_type,
           confidence |-> fn_in[w].payload.confidence,
           reasoning |-> fn_in[w].payload.reasoning,
           timestamp |-> now, mode |-> fn_in[w].payload.mode]} :
       /\ fn_out' = [fn_out EXCEPT
                       ![w] = [pc |-> "save",
                               classifications |->
                                 Append(Without(load_classifications(stored), fn_in[w].key[1],
                                                fn_in[w].key[2], fn_in[w].key[3]),
                                        new_classification),
                               loaded_at |-> now, saved_at |-> 0]]
       /\ adds' = Append(adds, new_classification)
  /\ now' = now + 1
  /\ UNCHANGED <<fn_in, stored, stored_before, ccvars, items, last_updated, runs, ddvars>>

\* save_classifications: the caller's list replaces the file.
WriterSave(w) ==
  /\ fn_out[w].pc = "save"
  /\ stored' = save_classifications(fn_out[w].classifications)
  /\ fn_out' = [fn_out EXCEPT ![w].pc = "done", ![w].saved_at = now]
  /\ now' = now + 1
  /\ UNCHANGED <<fn_in, stored_before, adds, ccvars, items, last_updated, runs, ddvars>>

NextWriters == \E w \in Writers : WriterLoad(w) \/ WriterSave(w)

SpecWriters == InitWriters /\ [][NextWriters]_vars

(***************************************************************************)
(* ZoteroSyncer.sync                                                       *)
(*                                                                         *)
(* The Zotero group library is stored = [collections, items]: collections  *)
(* is the sequence of [parent, name] created so far, a collection's key    *)
(* being its position (TopCollection for the configured top collection);   *)
(* items is the sequence of [itemType, extra, collection], extra being the *)
(* lines of the extra field, each a sequence of tokens.  A citation is     *)
(* given by the fields sync reads.  adds logs the sync calls.              *)
(***************************************************************************)
MaxSyncs == 2

TopCollection == 0

TRACKER_PREFIX == "CitationTracker:"

\* _make_tracker_key: item_id/item_flavor/doi-or-url-or-nothing.
MakeTrackerKey(citation) ==
  citation.item_id \o "/" \o citation.item_flavor \o "/"
    \o (IF Truthy(citation.citation_doi) THEN citation.citation_doi
        ELSE IF Truthy(citation.citation_url) THEN citation.citation_url
        ELSE "")

\* _strip_prefix: the item id after its namespace prefix.
StripPrefix(item_id) ==
  IF item_id = "dandi:000020" THEN "000020" ELSE item_id

\* The name of the item-level collection.
ItemCollectionName(citation) ==
  IF Truthy(citation.item_name)
    THEN StripPrefix(citation.item_id) \o " - " \o citation.item_name
    ELSE StripPrefix(citation.item_id)

\* _citation_to_zotero_item: the fields of the item that matter to the sync.
CitationToZoteroItem(citation, collection_key) ==
  [itemType |-> "journalArticle",
   extra |-> << <<TRACKER_PREFIX, " ", MakeTrackerKey(citation)>> >>
             \o (IF Truthy(citation.citation_source)
                   THEN << <<"Discovery Source:", " ", citation.citation_source>> >>
                   ELSE <<>>),
   collection |-> collection_key]

\* The tracker key of a library item: the rest of its first extra line that
\* starts with the prefix, stripped; None when it has no such line.
TrackerOf(item) ==
  IF \E l \in 1..Len(item.extra) : item.extra[l] # <<>> /\ Head(item.extra[l]) = TRACKER_PREFIX
    THEN Text(Strip(Tail(item.extra[
           CHOOSE l \in 1..Len(item.extra) :
             /\ item.extra[l] # <<>> /\ Head(item.extra[l]) = TRACKER_PREFIX
             /\ \A k \in 1..(l - 1) :
                  item.extra[k] = <<>> \/ Head(item.extra[k]) # TRACKER_PREFIX])))
    ELSE None

\* _fetch_existing_items: the tracker keys of the items under the top
\* collection; a failing request is logged and leaves the index empty.
FetchExistingItems(library, failed) ==
  IF failed THEN {}
  ELSE {TrackerOf(library.items[i]) :
          i \in {j \in 1..Len(library.items) :
                   /\ library.items[j].itemType \notin {"attachment", "note"}
                   /\ TrackerOf(library.items[j]) # None}}

\* _find_collection among the sub-collections of parent: its key, 0 when
\* there is none.
FindCollection(collections, parent, name) ==
  IF \E k \in 1..Len(collections) : collections[k] = [parent |-> parent, name |-> name]
    THEN CHOOSE k \in 1..Len(collections) :
           collections[k] = [parent |-> parent, name |-> name]
    ELSE 0

\* _group_citations in iteration order: the active citations, item by item
\* and flavor by flavor, in order of first appearance.
RECURSIVE ByFlavor(_)
ByFlavor(cs) ==
  IF cs = <<>> THEN <<>>
  ELSE SelectSeq(cs, LAMBDA c : c.item_flavor = Head(cs).item_flavor)
       \o ByFlavor(SelectSeq(cs, LAMBDA c : c.item_flavor # Head(cs).item_flavor))

RECURSIVE ByItem(_)
ByItem(cs) ==
  IF cs = <<>> THEN <<>>
  ELSE ByFlavor(SelectSeq(cs, LAMBDA c : c.item_id = Head(cs).item_id))
       \o ByItem(SelectSeq(cs, LAMBDA c : c.item_id # Head(cs).item_id))

GroupCitations(cs) == ByItem(SelectSeq(cs, LAMBDA c : c.citation_status = "active"))

EmptyReport ==
  [collections_created |-> 0, items_created |-> 0, items_skipped |-> 0,
   attachments_created |-> 0, errors |-> 0]

\* The library with the collection [parent, name] found or created:
\* st = [library, report, created], the result adds key.
EnsureCollection(st, parent, name) ==
  IF FindCollection(st.library.collections, parent, name) # 0
    THEN [st |-> st, key |-> FindCollection(st.library.collections, parent, name)]
    ELSE [st |-> [st EXCEPT !.library.collections = Append(@, [parent |-> parent, name |-> name]),
                            !.report.collections_created = @ + 1],
          key |-> Len(st.library.collections) + 1]

\* _sync_single_citation when not a dry run; create_fails says that
\* create_items answers "failed" or raises for this citation.
SyncSingleCitation(st, citation, collection_key, existing_items, create_fails) ==
  IF MakeTrackerKey(citation) \in existing_items
    THEN [st EXCEPT !.report.items_skipped = @ + 1]
  ELSE IF create_fails THEN [st EXCEPT !.report.errors = @ + 1]
  ELSE [st EXCEPT
          !.library.items =
             Append(@, CitationToZoteroItem(citation, collection_key))
             \o (IF Truthy(citation.pdf_url)
                   THEN << [itemType |-> "attachment", extra |-> <<>>, collection |-> 0] >>
                   ELSE <<>>),
          !.report.items_created = @ + 1,
          !.report.attachments_created =
             IF Truthy(citation.pdf_url) THEN @ + 1 ELSE @,
          !.created = Append(@, MakeTrackerKey(citation))]

\* One citation of the loops of sync, collections first.
SyncOne(st, citation, existing_items, create_fails) ==
  CHOOSE result \in
    {SyncSingleCitation(flavor_coll.st, citation, flavor_coll.key, existing_items,
                        create_fails) :
       flavor_coll \in
         {EnsureCollection(item_coll.st, item_coll.key, citation.item_flavor) :
            item_coll \in {EnsureCollection(st, TopCollection,
                                            ItemCollectionName(citation))}}} : TRUE

RECURSIVE SyncLoop(_, _, _, _)
SyncLoop(st, cs, existing_items, failing) ==
  IF cs = <<>> THEN st
  ELSE CHOOSE result \in
         {SyncLoop(next, Tail(cs), existing_items, failing) :
            next \in {SyncOne(st, Head(cs), existing_items,
                              MakeTrackerKey(Head(cs)) \in failing)}} : TRUE

\* The report of a dry run: nothing is written; a citation whose collections
\* exist is counted as skipped or as created, the citations of a missing
\* collection all as created, and each missing collection once.
DryRunReport(library, cs, existing_items) ==
  LET ItemKey(c) == FindCollection(library.collections, TopCollection, ItemCollectionName(c))
      FlavorKey(c) == IF ItemKey(c) = 0 THEN 0
                      ELSE FindCollection(library.collections, ItemKey(c), c.item_flavor)
      Skipped(c) == FlavorKey(c) # 0 /\ MakeTrackerKey(c) \in existing_items
  IN  [EmptyReport EXCEPT
         !.collections_created =
            Cardinality({cs[i].item_id : i \in {j \in 1..Len(cs) : ItemKey(cs[j]) = 0}})
            + Cardinality({<<cs[i].item_id, cs[i].item_flavor>> :
                             i \in {j \in 1..Len(cs) : FlavorKey(cs[j]) = 0}}),
         !.items_skipped = Cardinality({i \in 1..Len(cs) : Skipped(cs[i])}),
         !.items_created = Cardinality({i \in 1..Len(cs) : ~Skipped(cs[i])})]

\* The citations sync is handed: active and ignored, with a DOI, with a URL
\* only, with a PDF link.
SyncCitations ==
  { [item_id |-> "dandi:000020", item_flavor |-> "f1", item_name |-> "Dataset 1",
     citation_doi |-> "10.1/a", citation_url |-> None, citation_source |-> "crossref",
     citation_status |-> "active", pdf_url |-> "http://pdf/a"],
    [item_id |-> "dandi:000020", item_flavor |-> "f1", item_name |-> "Dataset 1",
     citation_doi |-> "10.1/b", citation_url |-> None, citation_source |-> "crossref",
     citation_status |-> "ignored", pdf_url |-> None],
    [item_id |-> "dandi:000020", item_flavor |-> "f2", item_name |-> "Dataset 1",
     citation_doi |-> None, citation_url |-> "http://u/c", citation_source |-> "manual",
     citation_status |-> "active", pdf_url |-> None],
    [item_id |-> "i2", item_flavor |-> "f1", item_name |-> None,
     citation_doi |-> "10.1/a", citation_url |-> None, citation_source |-> None,
     citation_status |-> "active", pdf_url |-> None] }

\* Lists without two citations of one tracker key.
MaxSyncLen == 2

SyncLists ==
  {cs \in SeqsUpTo(SyncCitations, MaxSyncLen) :
     \A i, j \in 1..Len(cs) : MakeTrackerKey(cs[i]) = MakeTrackerKey(cs[j]) => i = j}

EmptyLibrary == [collections |-> <<>>, items |-> <<>>]

InitSync ==
  /\ InitCollector
  /\ InitNoCollection
  /\ dd_in = <<>>
  /\ dd_out = NoResult
  /\ dd_again = NoResult
  /\ dd_pc = "input"
  /\ fn_in = NoCall
  /\ fn_out = NotApplied
  /\ stored = EmptyLibrary
  /\ stored_before = EmptyLibrary
  /\ adds = <<>>

\* sync(collection, citations, dry_run): fetch_fails says that the request
\* of _fetch_existing_items fails, failing holds the tracker keys whose
\* create_items request fails.
sync(cs, dry_run, fetch_fails, failing) ==
  /\ Len(adds) < MaxSyncs
  /\ \E existing_items \in {FetchExistingItems(stored, fetch_fails)},
        grouped \in {GroupCitations(cs)} :
       \E st \in {IF dry_run
                    THEN [library |-> stored,
                          report |-> DryRunReport(stored, grouped, existing_items),
                          created |-> <<>>]
                    ELSE SyncLoop([library |-> stored, report |-> EmptyReport,
                                   created |-> <<>>],
                                  grouped, existing_items, failing)} :
         /\ stored' = st.library
         /\ adds' = Append(adds, [citations |-> cs, dry_run |-> dry_run,
                                  fetch_fails |-> fetch_fails, failing |-> failing,
                                  existing |-> existing_items,
                                  report |-> st.report, created |-> st.created])
  /\ stored_before' = stored
  /\ UNCHANGED <<ccvars, covars, ddvars, fnvars>>

Sync ==
  /\ Len(adds) < MaxSyncs
  /\ \E cs \in SyncLists, dry_run \in BOOLEAN, fetch_fails \in BOOLEAN :
       \E failing \in {{}, {MakeTrackerKey(cs[i]) : i \in 1..Len(cs)}} :
         sync(cs, dry_run, fetch_fails, failing)

NextSync == Sync

SpecSync == InitSync /\ [][NextSync]_vars

(***************************************************************************)
(* Properties of deduplicate_citations (checked under SpecDedup)           *)
(***************************************************************************)

\* The identity triple of a record, written out for the properties.
Triple(c) == <<c.item_id, c.item_flavor, c.citation_doi>>

\* deduplicate_citations(dd_in) has returned a list.
DedupReturned == dd_pc # "input" /\ dd_out.ok

\* Positions of the input records with triple k, and the first of them.
Members(k) == {i \in 1..Len(dd_in) : Triple(dd_in[i]) = k}
FirstMember(k) == CHOOSE i \in Members(k) : \A j \in Members(k) : i <= j

\* The output record with triple k.
RepOf(k) == dd_out.val[CHOOSE j \in 1..Len(dd_out.val) : Triple(dd_out.val[j]) = k]

\* The truthy citation_source values carried by the group of k.
GroupSourceSet(k) == {dd_in[i].citation_source : i \in Members(k)} \ {None, ""}

\* First position in the input at which the group of k carries source s.
FirstSeen(k, s) ==
  CHOOSE i \in Members(k) :
    /\ dd_in[i].citation_source = s
    /\ \A j \in Members(k) : dd_in[j].citation_source = s => i <= j

SameButSources(a, b) ==
  [a EXCEPT !.citation_source = None, !.citation_sources = <<>>]
    = [b EXCEPT !.citation_source = None, !.citation_sources = <<>>]

\* C6: the list returned by deduplicate_citations holds no two records with
\* the same (item_id, item_flavor, citation_doi) triple and holds exactly one
\* record for every triple that occurs in the input.
C6_MergeKeyUniqueness ==
  DedupReturned =>
    /\ \A i, j \in 1..Len(dd_out.val) :
         Triple(dd_out.val[i]) = Triple(dd_out.val[j]) => i = j
    /\ {Triple(dd_out.val[j]) : j \in 1..Len(dd_out.val)}
         = {Triple(dd_in[i]) : i \in 1..Len(dd_in)}

\* Three input records, two of them with the same triple, collapsed into two.
C6_Witness ==
  /\ DedupReturned
  /\ Len(dd_in) = 3
  /\ Len(dd_out.val) = 2
  /\ \E i, j \in 1..3 : i # j /\ Triple(dd_in[i]) = Triple(dd_in[j])

\* C7: deduplicate_citations applied to its own output returns a list equal
\* to that output record for record: same order, same citation_source and
\* citation_sources, same metadata.
C7_DedupIdempotent ==
  dd_pc = "twice" => (dd_again.ok /\ dd_again.val = dd_out.val)

\* The second pass ran on an output holding a record merged from two sources.
C7_Witness ==
  /\ dd_pc = "twice"
  /\ Len(dd_out.val) < Len(dd_in)
  /\ \E j \in 1..Len(dd_out.val) :
       /\ Len(dd_out.val[j].citation_sources) > 1
       /\ \E i \in 1..Len(dd_in) :
            /\ Triple(dd_in[i]) = Triple(dd_out.val[j])
            /\ Len(dd_in[i].citation_sources) = 1

\* C8: for each key group the first record of the group (in input order) is
\* kept as the representative, and when the group carries more than one
\* distinct citation_source the representative's citation_sources is exactly
\* those distinct values, without duplicates, in first-seen order.
C8_RepresentativeAndSources ==
  DedupReturned =>
    \A k \in {Triple(dd_in[i]) : i \in 1..Len(dd_in)} :
      LET rep == RepOf(k)
          srcs == rep.citation_sources
      IN  /\ SameButSources(rep, dd_in[FirstMember(k)])
          /\ Cardinality(GroupSourceSet(k)) > 1 =>
               /\ Range(srcs) = GroupSourceSet(k)
               /\ Len(srcs) = Cardinality(GroupSourceSet(k))
               /\ \A a, b \in 1..Len(srcs) :
                    a < b => FirstSeen(k, srcs[a]) < FirstSeen(k, srcs[b])

\* A group of three records from two sources, the later-listed source
\* (alphabetically first) seen second, one source repeated.
C8_Witness ==
  /\ DedupReturned
  /\ Len(dd_in) = 3
  /\ Len(dd_out.val) = 1
  /\ dd_in[1].citation_source = "opencitations"
  /\ dd_in[2].citation_source = "crossref"
  /\ dd_in[3].citation_source = "opencitations"
  /\ dd_out.val[1].citation_sources = <<"opencitations", "crossref">>

\* Every member of the group of k carries the same truthy citation_source.
SingleSourceGroup(k) ==
  /\ Cardinality(GroupSourceSet(k)) = 1
  /\ \A i \in Members(k) : dd_in[i].citation_source \in GroupSourceSet(k)

TheSource(k) == CHOOSE s \in GroupSourceSet(k) : TRUE

\* C9 as stated: when all members of a key group carry the same single
\* citation_source value, the representative's citation_source is that value
\* and its citation_sources is exactly the one-element list of that value.
C9_Original ==
  DedupReturned =>
    \A k \in {Triple(dd_in[i]) : i \in 1..Len(dd_in)} :
      SingleSourceGroup(k) =>
        /\ RepOf(k).citation_source = TheSource(k)
        /\ RepOf(k).citation_sources = <<TheSource(k)>>

\* C9 amended: when all members of a key group carry the same single
\* citation_source value, the representative's citation_source is that value
\* and its citation_sources is left as the first record of the group had it:
\* a list containing that value, the one-element list when the first record
\* carried the one-element list.
C9_SingleSourceLeavesList ==
  DedupReturned =>
    \A k \in {Triple(dd_in[i]) : i \in 1..Len(dd_in)} :
      SingleSourceGroup(k) =>
        /\ RepOf(k).citation_source = TheSource(k)
        /\ RepOf(k).citation_sources = dd_in[FirstMember(k)].citation_sources
        /\ TheSource(k) \in Range(RepOf(k).citation_sources)
        /\ (dd_in[FirstMember(k)].citation_sources = <<TheSource(k)>>
              => RepOf(k).citation_sources = <<TheSource(k)>>)

\* A two-record group from one source whose first record already lists two
\* sources and whose second lists one.
C9_Witness ==
  /\ DedupReturned
  /\ Len(dd_in) = 2
  /\ Len(dd_out.val) = 1
  /\ SingleSourceGroup(Triple(dd_in[1]))
  /\ Len(dd_in[1].citation_sources) = 2
  /\ Len(dd_in[2].citation_sources) = 1
  /\ dd_out.val[1].citation_sources = dd_in[1].citation_sources

(***************************************************************************)
(* Properties of merge_citations (checked under Spec)                      *)
(***************************************************************************)

\* The last operation was a merge_citations call.
Merged == op \in {"merge", "remerge"}

\* A record a curator has touched: a non-empty comment or a status other
\* than active.
IsCurated(c) ==
  c.citation_status # "active" \/ (c.citation_comment # None /\ c.citation_comment # "")

NonEmpty(v) == v # None /\ v # ""

MetadataFields == {"citation_title", "citation_authors", "citation_year", "citation_journal"}

\* Positions of the incoming records with the triple k.
Incoming(k) == {n \in 1..Len(new_citations) : Triple(new_citations[n]) = k}

\* C1: merge_citations with an incoming record whose key matches an existing
\* curated record leaves every field of that existing record unchanged,
\* whatever the incoming record contains.
C1_CuratedRecordUntouched ==
  Merged =>
    \A i \in 1..Len(old_citations) :
      (IsCurated(old_citations[i]) /\ Incoming(Triple(old_citations[i])) # {}) =>
        (i <= Len(citations) /\ citations[i] = old_citations[i])

\* A curated record (active, with a comment) was re-discovered with another
\* title and kept its own.
C1_Witness ==
  /\ op = "merge"
  /\ \E i \in 1..Len(old_citations) :
       /\ old_citations[i].citation_status = "active"
       /\ old_citations[i].citation_comment = "reviewed ok"
       /\ \E n \in Incoming(Triple(old_citations[i])) :
            /\ NonEmpty(new_citations[n].citation_title)
            /\ new_citations[n].citation_title # old_citations[i].citation_title
       /\ citations[i].citation_title = old_citations[i].citation_title
       /\ citations[i].citation_comment = "reviewed ok"

\* The fields automated merge must never change.
StickyFields(c) ==
  <<c.citation_status, c.citation_comment, c.curated_by, c.curated_date,
    c.classification_method, c.classification_model, c.classification_confidence,
    c.classification_reviewed, c.item_id, c.item_flavor, c.citation_doi>>

\* C2: across every merge_citations call, hence after any sequence of them,
\* every record already in the list keeps its citation_status,
\* citation_comment, curated_by, curated_date, classification_* fields and
\* its key, curated or not.
C2_CurationFieldsSticky ==
  [][ op' \in {"merge", "remerge"} =>
        \A i \in 1..Len(citations) :
          /\ i <= Len(citations')
          /\ StickyFields(citations'[i]) = StickyFields(citations[i]) ]_vars

\* An uncurated record carrying curator and classification fields had its
\* title refreshed and kept those fields.
C2_Witness ==
  /\ Merged
  /\ \E i \in 1..Len(old_citations) :
       /\ ~IsCurated(old_citations[i])
       /\ old_citations[i].curated_by # None
       /\ old_citations[i].classification_model # None
       /\ citations[i].citation_title # old_citations[i].citation_title
       /\ StickyFields(citations[i]) = StickyFields(old_citations[i])

\* The value field f of the existing record with triple k must end with: the
\* value of the last incoming record with that triple that supplies f, or
\* the previous value when none supplies it.
Supplying(k, f) == {n \in Incoming(k) : NonEmpty(new_citations[n][f])}

RefreshedValue(c, f) ==
  IF Supplying(Triple(c), f) = {} THEN c[f]
  ELSE new_citations[CHOOSE n \in Supplying(Triple(c), f) :
                       \A m \in Supplying(Triple(c), f) : m <= n][f]

\* C3: for an existing record with citation_status = active and an empty
\* comment whose key an incoming record matches, each of title, authors, year
\* and journal becomes the incoming value when that is non-empty and keeps
\* its previous value when the incoming value is empty.
C3_MetadataRefresh ==
  Merged =>
    \A i \in 1..Len(old_citations) :
      (~IsCurated(old_citations[i]) /\ Incoming(Triple(old_citations[i])) # {}) =>
        \A f \in MetadataFields : citations[i][f] = RefreshedValue(old_citations[i], f)

\* One incoming record matched an uncurated record: its authors replaced the
\* known authors and its empty title left the known title in place.
C3_Witness ==
  /\ op = "merge"
  /\ \E i \in 1..Len(old_citations) :
       /\ ~IsCurated(old_citations[i])
       /\ Cardinality(Incoming(Triple(old_citations[i]))) = 1
       /\ \E n \in Incoming(Triple(old_citations[i])) :
            /\ ~NonEmpty(new_citations[n].citation_title)
            /\ NonEmpty(old_citations[i].citation_title)
            /\ citations[i].citation_title = old_citations[i].citation_title
            /\ NonEmpty(new_citations[n].citation_authors)
            /\ NonEmpty(old_citations[i].citation_authors)
            /\ new_citations[n].citation_authors # old_citations[i].citation_authors
            /\ citations[i].citation_authors = new_citations[n].citation_authors

OldTriples == {Triple(old_citations[i]) : i \in 1..Len(old_citations)}

NewTriples == {Triple(new_citations[n]) : n \in 1..Len(new_citations)} \ OldTriples

FirstIncoming(k) == CHOOSE n \in Incoming(k) : \A m \in Incoming(k) : n <= m

SameButMetadata(a, b) ==
  [a EXCEPT !.citation_title = None, !.citation_authors = None,
            !.citation_year = None, !.citation_journal = None]
    = [b EXCEPT !.citation_title = None, !.citation_authors = None,
                !.citation_year = None, !.citation_journal = None]

\* C4: an incoming record whose key is absent from the list is appended at
\* the end, unchanged, and its key registered: the list grows by exactly one
\* per distinct new key of the batch, in order of first occurrence, a later
\* record of the batch with the same key being a re-discovery (it refreshes
\* metadata and is not appended).
C4_NewRecordAppended ==
  Merged =>
    /\ Len(citations) = Len(old_citations) + Cardinality(NewTriples)
    /\ {Triple(citations[j]) : j \in (Len(old_citations) + 1)..Len(citations)} = NewTriples
    /\ \A j, l \in (Len(old_citations) + 1)..Len(citations) :
         j < l => FirstIncoming(Triple(citations[j])) < FirstIncoming(Triple(citations[l]))
    /\ \A j \in (Len(old_citations) + 1)..Len(citations) :
         LET k == Triple(citations[j])
         IN  /\ SameButMetadata(citations[j], new_citations[FirstIncoming(k)])
             /\ Cardinality(Incoming(k)) = 1 => citations[j] = new_citations[FirstIncoming(k)]

\* A batch of two records with the same new key grew a non-empty list by one
\* record, the first of the two.
C4_Witness ==
  /\ op = "merge"
  /\ Len(old_citations) > 0
  /\ Len(new_citations) = 2
  /\ Triple(new_citations[1]) = Triple(new_citations[2])
  /\ new_citations[1] # new_citations[2]
  /\ Triple(new_citations[1]) \notin OldTriples
  /\ Len(citations) = Len(old_citations) + 1
  /\ citations[Len(citations)].citation_source = new_citations[1].citation_source

\* C5: merging the same incoming batch a second time into the result of the
\* first merge changes no field of any record and adds no record.
C5_MergeIdempotent ==
  op = "remerge" => citations = old_citations

\* The re-merged batch holds a record that refreshed a known citation and a
\* record that was appended as new.
C5_Witness ==
  /\ op = "remerge"
  /\ Len(new_citations) = 2
  /\ \E n \in 1..2, i \in 1..Len(citations) :
       /\ Triple(new_citations[n]) = Triple(citations[i])
       /\ new_citations[n].citation_source # citations[i].citation_source
       /\ NonEmpty(new_citations[n].citation_title)
       /\ citations[i].citation_title = new_citations[n].citation_title
  /\ \E n \in 1..2 : citations[Len(citations)] = new_citations[n]

(***************************************************************************)
(* Properties of discovery runs (checked under SpecDiscover)               *)
(***************************************************************************)

\* The non-empty results of run r: <<source, citations>> per call that
\* returned something.
FoundIn(r) ==
  {<<runs[r].calls[i].source, runs[r].calls[i].outcome.citations>> :
     i \in {j \in 1..Len(runs[r].calls) :
              /\ ~runs[r].calls[j].outcome.raised
              /\ runs[r].calls[j].outcome.citations # <<>>}}

\* Two completed runs from an empty citation set: in the first only CrossRef
\* found something, 10.1/a and 10.1/b; in the second only OpenCitations did,
\* 10.1/a again with another title.
TwoRunScenario ==
  /\ Len(runs) = 2
  /\ op = "discover"
  /\ \E first \in FoundIn(1) :
       /\ FoundIn(1) = {first}
       /\ first[1] = "crossref"
       /\ Len(first[2]) = 2
       /\ first[2][1].citation_doi = "10.1/a"
       /\ first[2][1].citation_title = "T1"
       /\ first[2][2].citation_doi = "10.1/b"
  /\ \E second \in FoundIn(2) :
       /\ FoundIn(2) = {second}
       /\ second[1] = "opencitations"
       /\ Len(second[2]) = 1
       /\ second[2][1].citation_doi = "10.1/a"
       /\ second[2][1].citation_title = "T2"

\* C10 as stated: the scenario ends with exactly 2 records, the 10.1/a record
\* having citation_sources = [crossref, opencitations] and the refreshed
\* (second-run) title.
C10_Original ==
  TwoRunScenario =>
    /\ Len(citations) = 2
    /\ \E i \in 1..Len(citations) :
         /\ citations[i].citation_doi = "10.1/a"
         /\ citations[i].citation_sources = <<"crossref", "opencitations">>
         /\ citations[i].citation_title = "T2"

\* What the scenario ends with: 2 records, the title of 10.1/a refreshed, its
\* citation_sources still the first run's.
TwoRunScenarioObserved ==
  TwoRunScenario =>
    /\ Len(citations) = 2
    /\ \E i \in 1..Len(citations) :
         /\ citations[i].citation_doi = "10.1/a"
         /\ citations[i].citation_sources = <<"crossref">>
         /\ citations[i].citation_title = "T2"

\* The calls of run r that raised, and those that returned.
RaisedCalls(r) == {i \in 1..Len(runs[r].calls) : runs[r].calls[i].outcome.raised}
ReturnedCalls(r) == {i \in 1..Len(runs[r].calls) : ~runs[r].calls[i].outcome.raised}

\* discover_all has just returned (it did not raise).
DiscoverReturned == op \in {"discover", "discover_no_items"}

\* C11 as stated: every discover_all call that returns has set
\* collection.last_updated to the current time, with or without items.
C11_Original == [][DiscoverReturned' => last_updated' = now]_vars

\* C11: every discover_all call that returns on a collection with at least
\* one item has set collection.last_updated to the current time, whatever the
\* sources and whatever the discoverers did; on a collection without items
\* the call returns early and leaves last_updated as it was.
C11_WatermarkAdvanced ==
  [][DiscoverReturned' =>
       IF items = <<>> THEN last_updated' = last_updated ELSE last_updated' = now]_vars

\* A run in which every discoverer call raised or found nothing has returned
\* and moved the watermark to the time of the run.
C11_Witness ==
  /\ op = "discover"
  /\ Len(runs) = 1
  /\ RaisedCalls(1) # {}
  /\ \A i \in ReturnedCalls(1) : runs[1].calls[i].outcome.citations = <<>>
  /\ citations = <<>>
  /\ last_updated = now - 1

(***************************************************************************)
(* Properties of the discoverers (checked under SpecDiscoverer)            *)
(***************************************************************************)

\* The answers the requests of the applied call met: the pages it queried
\* and, for CrossRef with a usable event, doi.org.
AnswersMet ==
  {fn_in.server.pages[i].kind :
     i \in {j \in 1..Len(fn_in.server.pages) :
              j <= fn_out.requests /\ (fn_in.source = "openalex" \/ j = 1)}}
  \cup (IF fn_in.source = "crossref" /\ fn_out.requests > 1
          THEN {fn_in.server.doi_org} ELSE {})

\* A transport or parse failure occurred on a request of the call.
FailureMet == fn_out.done /\ AnswersMet \cap {"error", "malformed"} # {}

\* C19 as stated: whenever a transport or parse failure occurs on a request
\* of a discover call, discover returns an empty list and does not raise.
C19_Original == FailureMet => (~fn_out.raised /\ fn_out.citations = <<>>)

\* What the discoverers do on a failure: a RequestException on the first
\* query gives the empty list; JSON of an unexpected shape makes discover
\* raise; a RequestException on a later OpenAlex page or on a doi.org lookup
\* leaves a non-empty list.
C19_Observed ==
  FailureMet =>
    /\ fn_out.raised <=> "malformed" \in AnswersMet
    /\ fn_in.server.pages[1].kind = "error" => (~fn_out.raised /\ fn_out.citations = <<>>)

(***************************************************************************)
(* Properties of discovery runs against the APIs (checked under SpecLive)  *)
(***************************************************************************)
LastRun == runs[Len(runs)]

\* The calls of run r that met a fault.
FailedCalls(r) == {i \in 1..Len(runs[r].calls) : runs[r].calls[i].outcome.fault # "none"}

\* Some record of the list cs is the citing work doi found for the ref.
Holds(cs, ref, doi) ==
  \E n \in 1..Len(cs) :
    /\ cs[n].item_ref_value = ref.ref_value
    /\ cs[n].citation_doi = doi

\* The refs of the collection, in iteration order.
CollectionRefs == [t \in 1..Len(ItemTriples(items)) |-> ItemTriples(items)[t].ref]

\* C12: when a discoverer call fails for one (item, flavor, ref, source), the
\* run does not abort: discover_all returns normally, every enabled
\* discoverer has been called exactly once for every ref of the collection,
\* and every record a successful call returned is in the deduplicated batch
\* and in the citation list.
C12_FailureDoesNotAbort ==
  (Len(runs) >= 1 /\ FailedCalls(Len(runs)) # {}) =>
    /\ op = "discover"
    /\ \A t \in 1..Len(CollectionRefs) :
         \A d \in Range(Discoverers(LastRun.sources)) :
           Cardinality({i \in 1..Len(LastRun.calls) :
                          /\ LastRun.calls[i].source = d
                          /\ LastRun.calls[i].ref = CollectionRefs[t]}) = 1
    /\ \A i \in 1..Len(LastRun.calls) :
         ~LastRun.calls[i].outcome.raised =>
           \A k \in 1..Len(LastRun.calls[i].outcome.citations) :
             /\ Holds(new_citations, LastRun.calls[i].ref,
                      LastRun.calls[i].outcome.citations[k].citation_doi)
             /\ Holds(citations, LastRun.calls[i].ref,
                      LastRun.calls[i].outcome.citations[k].citation_doi)

\* CrossRef raised for the first ref; the records DataCite found for that ref
\* and CrossRef found for the second item are in the list.
C12_Witness ==
  /\ Len(runs) = 1
  /\ op = "discover"
  /\ LastRun.calls[1].source = "crossref"
  /\ LastRun.calls[1].outcome.raised
  /\ Holds(citations, DoiRef, "10.1/b")
  /\ Holds(citations, OtherDoiRef, "10.1/c")

\* Call i of run 1 failed, and the same source succeeded for the same ref in
\* call j of run 2, an incremental run.
MadeUpBy(i, j) ==
  /\ i \in FailedCalls(1)
  /\ j \in 1..Len(runs[2].calls) \ FailedCalls(2)
  /\ runs[2].calls[j].source = runs[1].calls[i].source
  /\ runs[2].calls[j].ref = runs[1].calls[i].ref
  /\ runs[2].incremental

\* What the failed call i of run 1 would have delivered (run 1 was made two
\* clock readings before the end of run 2).
Missed(i) ==
  Matching(runs[1].calls[i].source, runs[1].calls[i].ref.ref_value, runs[1].since, now - 2)

\* C13 as stated: a failed discoverer call is not retried within the run, and
\* when the same source succeeds for that ref on the next incremental run,
\* the citations it failed to deliver are in the citation list.
C13_Original ==
  (Len(runs) = 2 /\ op = "discover") =>
    \A i \in 1..Len(runs[1].calls) : \A j \in 1..Len(runs[2].calls) :
      MadeUpBy(i, j) =>
        /\ runs[1].calls[i].outcome.citations = <<>>
        /\ \A k \in 1..Len(Missed(i)) :
             Holds(citations, runs[1].calls[i].ref, Missed(i)[k].doi)

\* What the code does: the failed call contributes nothing, and the next run
\* makes the failure up when it is a full run (incremental = False) but not
\* when it is incremental with the watermark the failed run has set.
C13_Observed ==
  (Len(runs) = 2 /\ op = "discover") =>
    \A i \in FailedCalls(1) : \A j \in 1..Len(runs[2].calls) \ FailedCalls(2) :
      (/\ runs[2].calls[j].source = runs[1].calls[i].source
       /\ runs[2].calls[j].ref = runs[1].calls[i].ref) =>
        /\ runs[1].calls[i].outcome.citations = <<>>
        /\ runs[2].since = now - 2
             => \A k \in 1..Len(Missed(i)) :
                  ~Holds(new_citations, runs[1].calls[i].ref, Missed(i)[k].doi)
        /\ ~runs[2].incremental
             => \A k \in 1..Len(Missed(i)) :
                  Holds(citations, runs[1].calls[i].ref, Missed(i)[k].doi)

\* C20: a discoverer called with a ref whose type is not doi returns the
\* empty list without raising and without an HTTP request, whatever the
\* server would answer; in a discover_all run such a call contributes
\* nothing, so no record of the batch or of the list stems from a non-DOI ref.
C20_NonDoiRefContributesNothing ==
  /\ (fn_out.done /\ fn_in.item_ref.ref_type # "doi") =>
       (~fn_out.raised /\ fn_out.citations = <<>> /\ fn_out.requests = 0)
  /\ \A r \in 1..Len(runs) : \A i \in 1..Len(runs[r].calls) :
       runs[r].calls[i].ref.ref_type # "doi" =>
         /\ ~runs[r].calls[i].outcome.raised
         /\ runs[r].calls[i].outcome.citations = <<>>
         /\ runs[r].calls[i].outcome.requests = 0
  /\ \A n \in 1..Len(new_citations) : new_citations[n].item_ref_type \in {None, "doi"}
  /\ \A n \in 1..Len(citations) : citations[n].item_ref_type \in {None, "doi"}

\* OpenAlex was called with a GitHub ref against a server that would have
\* answered with a work, and returned nothing.
C20_Witness ==
  /\ fn_out.done
  /\ fn_in.source = "openalex"
  /\ fn_in.item_ref = GithubRef
  /\ fn_in.server.pages = <<Ok(<<WorkA>>, FALSE)>>
  /\ fn_out.citations = <<>>
  /\ fn_out.requests = 0

\* A run with all four discoverers over a collection with a GitHub ref has
\* found citations, none of them for the GitHub ref.
C20_WitnessInRun ==
  /\ Len(runs) = 1
  /\ LastRun.sources = <<>>
  /\ \E i \in 1..Len(LastRun.calls) : LastRun.calls[i].ref = GithubRef
  /\ citations # <<>>

(***************************************************************************)
(* Properties of ClassificationsStorage (checked under SpecStorage)        *)
(***************************************************************************)
ClassificationKey(c) == <<c.item_id, c.item_flavor, c.model>>

\* The position in adds of the most recent add for the key.
LastAdd(key) ==
  CHOOSE j \in 1..Len(adds) :
    /\ ClassificationKey(adds[j]) = key
    /\ \A m \in 1..Len(adds) : ClassificationKey(adds[m]) = key => m <= j

\* C14: after any sequence of add_classification calls from an empty store,
\* the stored list has at most one entry per (item_id, item_flavor, model),
\* and that entry has the relationship_type, confidence, reasoning, backend
\* and mode of the most recent add for the key.
C14_LastWriteWins ==
  /\ \A i, j \in 1..Len(stored) :
       ClassificationKey(stored[i]) = ClassificationKey(stored[j]) => i = j
  /\ \A i \in 1..Len(stored) :
       /\ \E j \in 1..Len(adds) : ClassificationKey(adds[j]) = ClassificationKey(stored[i])
       /\ stored[i] = adds[LastAdd(ClassificationKey(stored[i]))]

\* The same key was added twice with different results and once more for
\* another model: two entries, the first key carrying the second result.
C14_Witness ==
  /\ Len(adds) = 3
  /\ ClassificationKey(adds[1]) = <<"i1", "f1", "A">>
  /\ ClassificationKey(adds[2]) = <<"i1", "f1", "A">>
  /\ adds[1].relationship_type # adds[2].relationship_type
  /\ ClassificationKey(adds[3]) = <<"i1", "f1", "B">>
  /\ Len(stored) = 2
  /\ stored[1].relationship_type = adds[2].relationship_type

\* The models ever added for an item and flavor.
ModelsAdded(item_id, item_flavor) ==
  {adds[j].model : j \in {m \in 1..Len(adds) :
                            adds[m].item_id = item_id /\ adds[m].item_flavor = item_flavor}}

\* get_classifications_for_item returns one entry per model ever added.
OneEntryPerModel ==
  \A key \in ClassificationKeys :
    /\ Len(get_classifications_for_item(stored, key[1], key[2]))
         = Cardinality(ModelsAdded(key[1], key[2]))
    /\ {get_classifications_for_item(stored, key[1], key[2])[i].model :
          i \in 1..Len(get_classifications_for_item(stored, key[1], key[2]))}
         = ModelsAdded(key[1], key[2])

\* The entries of a list whose key differs from the given one, in order.
Others(file, key) == SelectSeq(file, LAMBDA c : ClassificationKey(c) # key)

\* C15: add_classification for a key leaves the stored entries of every
\* other key unchanged and in the same relative order, and afterwards
\* get_classifications_for_item returns one entry per distinct model that
\* was ever added for the item and flavor.
C15_OtherKeysUntouched ==
  [][adds' # adds =>
       /\ Others(stored', ClassificationKey(adds'[Len(adds')]))
            = Others(stored, ClassificationKey(adds'[Len(adds')]))
       /\ OneEntryPerModel']_vars

\* Model A was re-added for an item and flavor that models A and B had
\* classified: B's entry is still there and both are returned.
C15_Witness ==
  /\ Len(adds) = 3
  /\ ClassificationKey(adds[1]) = <<"i1", "f1", "A">>
  /\ ClassificationKey(adds[2]) = <<"i1", "f1", "B">>
  /\ ClassificationKey(adds[3]) = <<"i1", "f1", "A">>
  /\ stored_before[2] = stored[1]
  /\ Len(get_classifications_for_item(stored, "i1", "f1")) = 2

(***************************************************************************)
(* Properties of the constructor (checked under SpecConstructor)           *)
(***************************************************************************)

\* C16: construction with a non-empty citation_relationships whose first
\* element differs from citation_relationship raises; construction with
\* citation_relationship given and no citation_relationships sets the list
\* to [citation_relationship]; every record constructed has
\* citation_relationships[0] = citation_relationship.
C16_RelationshipCoherence ==
  fn_out.done =>
    /\ (/\ fn_in.citation_relationships # <<>>
        /\ fn_in.citation_relationships[1] # fn_in.citation_relationship) => ~fn_out.ok
    /\ (/\ fn_in.citation_relationship # None
        /\ fn_in.citation_relationships = <<>>
        /\ fn_out.ok) =>
          fn_out.rec.citation_relationships = <<fn_in.citation_relationship>>
    /\ fn_out.ok =>
         /\ fn_out.rec.citation_relationships # <<>>
         /\ fn_out.rec.citation_relationships[1] = fn_out.rec.citation_relationship

\* Cites with the list [Uses] was refused.
C16_Witness ==
  /\ fn_out.done
  /\ fn_in.citation_relationship = "Cites"
  /\ fn_in.citation_relationships = <<"Uses">>
  /\ fn_in.citation_source = "crossref"
  /\ fn_in.citation_sources = <<>>
  /\ fn_in.discovered_dates = {}
  /\ ~fn_out.ok

\* Cites without a list was constructed with the list [Cites].
C16_WitnessPopulated ==
  /\ fn_out.done
  /\ fn_in.citation_relationship = "Cites"
  /\ fn_in.citation_relationships = <<>>
  /\ fn_out.ok
  /\ fn_out.rec.citation_relationships = <<"Cites">>

\* C17: construction with non-empty citation_sources and non-empty
\* discovered_dates succeeds only if the keys of discovered_dates are exactly
\* the citation_sources; a source without a date, or a date key that is not
\* a source, raises and no record is produced.
C17_SourcesDatesCoherence ==
  (/\ fn_out.done
   /\ fn_in.citation_sources # <<>>
   /\ fn_in.discovered_dates # {}) =>
     /\ fn_out.ok => fn_in.discovered_dates = Range(fn_in.citation_sources)
     /\ fn_in.discovered_dates # Range(fn_in.citation_sources) =>
          (~fn_out.ok /\ fn_out = [done |-> TRUE, ok |-> FALSE])

\* Sources [crossref] with dates for crossref, openalex and datacite was
\* refused although every source has a date.
C17_Witness ==
  /\ fn_out.done
  /\ fn_in.citation_relationship = "Cites"
  /\ fn_in.citation_relationships = <<>>
  /\ fn_in.citation_source = "crossref"
  /\ fn_in.citation_sources = <<"crossref">>
  /\ fn_in.discovered_dates = {"crossref", "openalex", "datacite"}
  /\ ~fn_out.ok

(***************************************************************************)
(* Properties of the classifier (checked under SpecClassifier)             *)
(***************************************************************************)

\* C18: classify_citation with an empty contexts list returns
\* relationship_type Cites, confidence 0.0, a non-empty reasoning and an empty
\* context_used, without raising and without calling the backend, for every
\* paper_metadata and dataset_id.
C18_EmptyContextFallback ==
  (fn_out.done /\ fn_in.contexts = <<>>) =>
    /\ ~fn_out.raised
    /\ fn_out.backend_calls = 0
    /\ fn_out.result.relationship_type = "Cites"
    /\ fn_out.result.confidence = 0
    /\ Truthy(fn_out.result.reasoning)
    /\ fn_out.result.context_used = <<>>

\* The fallback was returned for a paper whose title is None and a backend
\* that would have raised.
C18_Witness ==
  /\ fn_out.done
  /\ fn_in.contexts = <<>>
  /\ fn_in.paper_metadata = [has_title |-> TRUE, title |-> None]
  /\ fn_in.backend.raises
  /\ fn_out.result.relationship_type = "Cites"
  /\ fn_out.backend_calls = 0

(***************************************************************************)
(* Properties of the LLM backends (checked under SpecBackend)              *)
(***************************************************************************)

\* The call met an API error or a model output that cannot be parsed into
\* relationship_type, confidence and reasoning.
ClassificationFailed ==
  /\ fn_out.done
  /\ \/ fn_in.reply.api = "error"
     \/ ParseException(fn_in.backend_type, fn_in.reply) # "none"

\* C21 as stated: for every backend, an API error or an unparseable or
\* incomplete model output makes classify_citation return the fallback
\* (Cites, confidence 0.0) instead of raising.
C21_Original ==
  ClassificationFailed =>
    /\ ~fn_out.raised
    /\ fn_out.result.relationship_type = "Cites"
    /\ fn_out.result.confidence = 0

\* What the backends do: the OpenAI/Dartmouth backend always falls back; the
\* Ollama and OpenRouter backends fall back on an API error, KeyError,
\* JSONDecodeError and ValueError, and raise on TypeError and IndexError.
C21_Observed ==
  ClassificationFailed =>
    /\ fn_out.raised <=>
         /\ fn_in.backend_type \in {"ollama", "openrouter"}
         /\ fn_in.reply.api = "ok"
         /\ ParseException(fn_in.backend_type, fn_in.reply) \in {"TypeError", "IndexError"}
    /\ ~fn_out.raised =>
         (fn_out.result.relationship_type = "Cites" /\ fn_out.result.confidence = 0)

(***************************************************************************)
(* Properties of the selection strategies (checked under SpecSelect)       *)
(***************************************************************************)

\* C22 as stated: on an empty or single-element list from
\* get_classifications_for_item, highest-confidence-wins and
\* named-model-priority complete without raising, and on a single-element
\* list they select that element.
C22_Original ==
  (fn_out.done /\ Len(fn_out.all_classifications) <= 1) =>
    /\ ~fn_out.best_by_conf.raised
    /\ ~fn_out.preferred.raised
    /\ Len(fn_out.all_classifications) = 1 =>
         /\ fn_out.best_by_conf.selected = fn_out.all_classifications[1]
         /\ fn_out.preferred.selected = fn_out.all_classifications[1]

\* What the selections do: both raise on an empty list, both select the
\* element of a single-element list, and neither raises on a longer one.
C22_Observed ==
  fn_out.done =>
    /\ fn_out.best_by_conf.raised <=> fn_out.all_classifications = <<>>
    /\ fn_out.preferred.raised <=> fn_out.all_classifications = <<>>
    /\ Len(fn_out.all_classifications) = 1 =>
         /\ fn_out.best_by_conf.selected = fn_out.all_classifications[1]
         /\ fn_out.preferred.selected = fn_out.all_classifications[1]

(***************************************************************************)
(* Properties of save_citations / load_citations (checked under SpecTsv)   *)
(***************************************************************************)

\* The legacy singular column of a list column.
Singular(column) ==
  IF column = "citation_sources" THEN "citation_source" ELSE "citation_relationship"

\* A field holds nothing: None, the empty list, the empty mapping.
Unset(field, value) ==
  IF field \in ListColumns THEN value = <<>>
  ELSE IF field = "discovered_dates" THEN value = {}
  ELSE value = None

\* An empty cell of a scalar column loads as None, a missing column leaves
\* the field at its default.
ScalarCellsUnset ==
  \A i \in 1..Len(fn_out.file) : \A c \in ScalarColumns :
    /\ ~fn_out.file[i][c].present => fn_out.citations[i][c] = Blank[c]
    /\ (fn_out.file[i][c].present /\ fn_out.file[i][c].text = <<>>) =>
         fn_out.citations[i][c] = None

C23_WitnessDefaults ==
  /\ fn_out.done
  /\ fn_in.kind = "file"
  /\ fn_in.file[1].citation_sources = Cell(<<>>)
  /\ fn_in.file[1].citation_source = NoCell
  /\ fn_in.file[1].citation_relationships = Cell(<<>>)
  /\ fn_out.citations[1].citation_source = "manual"

\* The singular columns are not written.
SingularColumnsNotWritten ==
  \A i \in 1..Len(fn_out.file) : \A c \in LegacyColumns : ~fn_out.file[i][c].present

\* C29 as stated: save_citations followed by load_citations preserves the
\* relationships list and the sources list of every record, elements and
\* order, together with the singular citation_relationship and
\* citation_source, although the singular columns are not written.
C29_Original ==
  (fn_out.done /\ fn_in.kind = "records") =>
    /\ fn_out.ok
    /\ SingularColumnsNotWritten
    /\ \A i \in 1..Len(fn_in.citations) :
         /\ fn_out.citations[i].citation_relationships
              = fn_in.citations[i].citation_relationships
         /\ fn_out.citations[i].citation_sources = fn_in.citations[i].citation_sources
         /\ fn_out.citations[i].citation_relationship
              = fn_in.citations[i].citation_relationship
         /\ fn_out.citations[i].citation_source = fn_in.citations[i].citation_source

\* C29, amended: the two lists and citation_relationship are preserved;
\* citation_source comes back as the first element of citation_sources,
\* which is the saved citation_source only when that was the first element.
C29_ListsPreserved ==
  (fn_out.done /\ fn_in.kind = "records") =>
    /\ fn_out.ok
    /\ SingularColumnsNotWritten
    /\ \A i \in 1..Len(fn_in.citations) :
         /\ fn_out.citations[i].citation_relationships
              = fn_in.citations[i].citation_relationships
         /\ fn_out.citations[i].citation_sources = fn_in.citations[i].citation_sources
         /\ fn_out.citations[i].citation_relationship
              = fn_in.citations[i].citation_relationship
         /\ fn_out.citations[i].citation_source = fn_in.citations[i].citation_sources[1]
         /\ fn_out.citations[i].citation_source = fn_in.citations[i].citation_source
              <=> fn_in.citations[i].citation_source = fn_in.citations[i].citation_sources[1]

\* A record with two relationships and two sources went through the file.
C29_Witness ==
  /\ fn_out.done
  /\ fn_in.kind = "records"
  /\ \E i \in 1..Len(fn_in.citations) :
       /\ fn_in.citations[i].citation_relationships = <<"Uses", "Cites">>
       /\ fn_in.citations[i].citation_sources = <<"crossref", "openalex">>
       /\ fn_out.file[i].citation_relationships = Cell(<<"Uses", ",", " ", "Cites">>)
       /\ fn_out.citations[i].citation_sources = <<"crossref", "openalex">>

(***************************************************************************)
(* Properties of the citation list across calls (checked under             *)
(* SpecCollector)                                                          *)
(***************************************************************************)

\* C26: a citation list without two records of the same (item_id,
\* item_flavor, citation_doi) triple, as the empty list and a loaded file
\* are, has none after any sequence of discover_all and merge_citations
\* calls, whatever the discoverers return.
C26_NoDuplicateTriples == UniqueKeys(citations)

\* A discovery run returned, in one batch, a citation the list already held
\* and one it did not, after a batch was merged by hand.
C26_Witness ==
  /\ op = "discover"
  /\ merges > 0
  /\ Len(old_citations) > 0
  /\ Len(citations) > Len(old_citations)
  /\ \E n \in 1..Len(new_citations), i \in 1..Len(old_citations) :
       Key(new_citations[n]) = Key(old_citations[i])

\* C27: merge_citations never removes or reorders records: every record of
\* the list is, after any call, still in the list at the same position, new
\* records come after them, and the length never decreases.
C27_NeverRemovesOrReorders ==
  [][/\ Len(citations') >= Len(citations)
     /\ \A i \in 1..Len(citations) : Key(citations'[i]) = Key(citations[i])]_vars

\* A discovery run refreshed a known record in place and appended a new one
\* behind two known records.
C27_Witness ==
  /\ op = "discover"
  /\ Len(old_citations) = 2
  /\ Len(citations) = 3
  /\ \E i \in 1..2 : citations[i] # old_citations[i]
  /\ \A i \in 1..2 : Key(citations[i]) = Key(old_citations[i])

(***************************************************************************)
(* Properties of discover_all step by step (checked under SpecSteps)       *)
(***************************************************************************)

\* The outcomes of the calls a run logged.
LoggedOutcomes(run) == [i \in 1..Len(run.calls) |-> run.calls[i].outcome]

\* The calls a run has to make.
CallsOf(run) == Calls(ItemTriples(items), Discoverers(run.sources))

\* C24: within one discover_all run, deduplication and merge happen once and
\* only after every discoverer call for every (item, flavor, ref) triple has
\* finished: while the calls are being made the citation list is as it was
\* at the start of the run, and the one batch merged is the deduplicated
\* whole of what all the calls returned.  (merge_citations is reached once
\* in every run that gets past the loops and deduplication; a run on a
\* collection without items returns before them.)
C24_MergedOnceAfterFanOut ==
  /\ fn_in # NoCall => (citations = old_citations /\ Len(fn_out.log) = fn_out.i - 1)
  /\ merges = Cardinality({r \in 1..Len(runs) : runs[r].merged})
  /\ \A r \in 1..Len(runs) :
       /\ items # <<>> => Len(runs[r].calls) = Len(CallsOf(runs[r]))
       /\ runs[r].merged =>
            runs[r].batch = deduplicate_citations(
                              AllCitations(CallsOf(runs[r]), LoggedOutcomes(runs[r]))).val
  /\ op = "discover" => new_citations = runs[Len(runs)].batch

\* Both discoverers of a run returned citations; the list stayed empty until
\* the run merged them, in one batch, after the second call.
C24_Witness ==
  /\ op = "discover"
  /\ Len(runs) = 1
  /\ old_citations = <<>>
  /\ Len(runs[1].calls) = 2
  /\ \A i \in 1..2 : /\ ~runs[1].calls[i].outcome.raised
                     /\ runs[1].calls[i].outcome.citations # <<>>
  /\ Len(citations) = 2
  /\ merges = 1

\* The calls are under way: one discoverer has returned citations and the
\* list is still empty.
C24_WitnessUnderWay ==
  /\ fn_in # NoCall
  /\ fn_out.pc = "calls"
  /\ fn_out.i = 2
  /\ fn_out.all_citations # <<>>
  /\ citations = <<>>

\* The since a run has to pass: the watermark read at the start when
\* incremental and a watermark exists, else none.
ExpectedSince(incremental, watermark) ==
  IF incremental /\ watermark # NoTime THEN watermark ELSE NoTime

\* C28: the since passed to every discoverer call of a run is
\* collection.last_updated as it was at the start of the run when incremental
\* is true and a watermark exists, and None otherwise; it is the same for
\* every call of the run.
C28_SinceOfEveryCall ==
  /\ \A r \in 1..Len(runs) : \A i \in 1..Len(runs[r].calls) :
       runs[r].calls[i].since = ExpectedSince(runs[r].incremental, runs[r].watermark)
  /\ fn_in # NoCall =>
       \A i \in 1..Len(fn_out.log) :
         fn_out.log[i].since = ExpectedSince(fn_in.incremental, fn_out.watermark)

\* A full scan set the watermark; the incremental run after it passed that
\* watermark to both of its calls; a later full scan would pass none.
C28_Witness ==
  /\ Len(runs) = 2
  /\ ~runs[1].incremental
  /\ runs[1].watermark = NoTime
  /\ runs[2].incremental
  /\ runs[2].watermark # NoTime
  /\ Len(runs[2].calls) = 2
  /\ \A i \in 1..2 : runs[2].calls[i].since = runs[2].watermark

(***************************************************************************)
(* Properties of unserialized add_classification calls (checked under      *)
(* SpecWriters)                                                            *)
(***************************************************************************)

BothDone == \A w \in Writers : fn_out[w].pc = "done"

\* The verdict of caller w is in the file.
VerdictStored(w) ==
  \E i \in 1..Len(stored) :
    /\ <<stored[i].item_id, stored[i].item_flavor, stored[i].model>> = fn_in[w].key
    /\ stored[i].relationship_type = fn_in[w].payload.relationship_type
    /\ stored[i].timestamp = fn_out[w].loaded_at

\* One call wrote the file before the other read it.
Serialized ==
  \E w, v \in Writers : w # v /\ fn_out[w].saved_at < fn_out[v].loaded_at

\* C25: add_classification is an unlocked read-modify-write: when two calls
\* on one paper for distinct keys both load before either saves, the verdict
\* of the call that saves first is missing from the stored list afterwards,
\* whereas every serialized order of the two calls leaves both verdicts
\* stored.
C25_UnserializedWritersLoseAVerdict ==
  BothDone =>
    /\ Serialized => \A w \in Writers : VerdictStored(w)
    /\ ~Serialized =>
         \A w, v \in Writers :
           fn_out[w].saved_at < fn_out[v].saved_at =>
             (~VerdictStored(w) /\ VerdictStored(v))

\* Both calls loaded before either saved, and the first caller's verdict is
\* gone.
C25_Witness ==
  /\ BothDone
  /\ fn_out[1].loaded_at < fn_out[2].saved_at
  /\ fn_out[2].loaded_at < fn_out[1].saved_at
  /\ fn_out[1].saved_at < fn_out[2].saved_at
  /\ ~VerdictStored(1)
  /\ VerdictStored(2)

\* The calls ran one after the other and both verdicts are stored.
C25_WitnessSerialized ==
  /\ BothDone
  /\ fn_out[1].saved_at < fn_out[2].loaded_at
  /\ VerdictStored(1)
  /\ VerdictStored(2)

(***************************************************************************)
(* Properties of ZoteroSyncer.sync (checked under SpecSync)                *)
(***************************************************************************)

\* The tracker keys on the items of a library, and how many items carry one.
TrackerKeys(library) ==
  {TrackerOf(library.items[i]) : i \in 1..Len(library.items)} \ {None}

ItemsWith(library, tracker_key) ==
  Cardinality({i \in 1..Len(library.items) : TrackerOf(library.items[i]) = tracker_key})

LastSync == adds[Len(adds)]

\* The active citations of the last sync whose tracker key was on an item
\* of the library when the sync began.
AlreadyThere ==
  {i \in 1..Len(LastSync.citations) :
     /\ LastSync.citations[i].citation_status = "active"
     /\ MakeTrackerKey(LastSync.citations[i]) \in TrackerKeys(stored_before)}

\* C30 as stated: sync never creates an item for a citation whose tracker
\* key is already on an item under the top collection, such citations are
\* counted as skipped, at most one item per tracker key is ever created, and
\* repeating a sync of the same citations creates no additional items.
C30_Original ==
  /\ \A k \in TrackerKeys(stored) : ItemsWith(stored, k) = 1
  /\ adds # <<>> =>
       /\ \A i \in 1..Len(LastSync.created) :
            LastSync.created[i] \notin TrackerKeys(stored_before)
       /\ ~LastSync.dry_run => LastSync.report.items_skipped = Cardinality(AlreadyThere)
  /\ (Len(adds) = 2 /\ adds[1].citations = adds[2].citations /\ ~adds[1].dry_run
        /\ adds[1].failing = {}) =>
       adds[2].created = <<>>

\* What sync does: the guarantees of C30 hold for a sync whose request for
\* the existing items succeeded; when that request fails the index is empty,
\* nothing is skipped and an item is created for every active citation whose
\* create request succeeds.
C30_Observed ==
  adds # <<>> =>
    /\ (\A n \in 1..Len(adds) : ~adds[n].fetch_fails) =>
         /\ \A k \in TrackerKeys(stored) : ItemsWith(stored, k) = 1
         /\ (Len(adds) = 2 /\ adds[1].citations = adds[2].citations /\ ~adds[1].dry_run
               /\ adds[1].failing = {}) =>
              adds[2].created = <<>>
    /\ ~LastSync.fetch_fails =>
         /\ \A i \in 1..Len(LastSync.created) :
              LastSync.created[i] \notin TrackerKeys(stored_before)
         /\ ~LastSync.dry_run => LastSync.report.items_skipped = Cardinality(AlreadyThere)
    /\ (LastSync.fetch_fails /\ ~LastSync.dry_run) =>
         /\ LastSync.report.items_skipped = 0
         /\ LastSync.failing = {} =>
              Len(LastSync.created)
                = Cardinality({i \in 1..Len(LastSync.citations) :
                                 LastSync.citations[i].citation_status = "active"})

\* A second sync of the same citations met a failing request for the
\* existing items and created a second item for a tracker key.
C30_DuplicateCreated ==
  /\ Len(adds) = 2
  /\ adds[1].citations = adds[2].citations
  /\ adds[2].fetch_fails
  /\ \E k \in TrackerKeys(stored) : ItemsWith(stored, k) = 2

====
